---- MODULE Spec2Model ----
(***************************************************************************)
(* dnsfik: reconciliation of Cloudflare DNS records against the labels of  *)
(* running containers.  The model covers the public-address resolver       *)
(* (IPService), the label parser (LabelValidator), the reconciler          *)
(* (DNSService), the task queue (TaskWorker) and the provider client       *)
(* (CloudflareService) at its boundary.                                    *)
(***************************************************************************)
EXTENDS Integers, Sequences, FiniteSets, TLC

(***************************************************************************)
(* Bounds of the model.                                                    *)
(***************************************************************************)
StartTime == 1000000
MaxTicks == 2
MaxQueue == 3
MaxOps == 2
MaxChecks == 2

(***************************************************************************)
(* JavaScript values.                                                      *)
(***************************************************************************)
NULL == "<null>"
UNDEF == "<undefined>"
NaN == -999999

Truthy(s) == s # NULL /\ s # UNDEF /\ s # ""

Range(s) == {s[i] : i \in 1..Len(s)}

(***************************************************************************)
(* IPService (src/src/services/ip.service.ts).                             *)
(***************************************************************************)
CACHE_DURATION == 5 * 60 * 1000

IPv4Addrs == {"1.2.3.4", "5.6.7.8"}
IPv6Addrs == {"2001:db8::1", "2001:db8::2"}

\* A request that fails carries an error code instead of a body.
ETIMEDOUT == "ETIMEDOUT"
ENETUNREACH == "ENETUNREACH"
NetErrors == {ETIMEDOUT, ENETUNREACH}

ErrMismatch == "IP addresses from different sources don't match"
ErrNoIPv6 == "IPv6 is not available in this Docker container"

\* The answers of the address sources during one call: the trace endpoint
\* over IPv4, the two fallback providers, the trace endpoint over IPv6.
\* The fallback providers are asked only when the trace endpoint fails;
\* their bodies are trimmed and may be empty.
Net(p, a, b, q) == [cf4 |-> p, ipify |-> a, ifconfig |-> b, cf6 |-> q]

NetAnswersAll ==
  { Net(p, ETIMEDOUT, ETIMEDOUT, q) :
      p \in IPv4Addrs, q \in IPv6Addrs \cup NetErrors }
  \cup
  { Net(ETIMEDOUT, a, b, q) :
      a \in IPv4Addrs \cup {"", ETIMEDOUT},
      b \in IPv4Addrs \cup {"", ETIMEDOUT},
      q \in IPv6Addrs \cup NetErrors }

NetAnswers ==
  { [cf4 |-> p, ipify |-> ETIMEDOUT, ifconfig |-> ETIMEDOUT, cf6 |-> q] :
      p \in IPv4Addrs, q \in IPv6Addrs \cup {ENETUNREACH} }
  \cup
  { [cf4 |-> ETIMEDOUT, ipify |-> a, ifconfig |-> b, cf6 |-> q] :
      a \in IPv4Addrs \cup {ETIMEDOUT},
      b \in IPv4Addrs \cup {ETIMEDOUT},
      q \in IPv6Addrs \cup {ENETUNREACH} }

\* The resolver's fields.
IPState(c4, l4, c6, l6) ==
  [currentIPv4 |-> c4, lastCheckIPv4 |-> l4,
   currentIPv6 |-> c6, lastCheckIPv6 |-> l6]

\* fetchIPViaCloudflareDOH: the address line of the trace answer, or the
\* error; ENETUNREACH on the IPv6 endpoint becomes the helpful error.
fetchIPViaCloudflareDOH(type, net) ==
  LET r == IF type = "AAAA" THEN net.cf6 ELSE net.cf4
  IN  IF r \in NetErrors
        THEN [ok |-> FALSE, val |-> "",
              err |-> IF type = "AAAA" /\ r = ENETUNREACH THEN ErrNoIPv6 ELSE r]
        ELSE [ok |-> TRUE, val |-> r, err |-> ""]

\* fetchIP: the trimmed body of a fallback provider, or the error.
fetchIP(r) ==
  IF r \in NetErrors THEN [ok |-> FALSE, val |-> "", err |-> r]
                     ELSE [ok |-> TRUE, val |-> r, err |-> ""]

\* The refresh of getPublicIPv4: the primary source, then both fallback
\* providers at once (Promise.all), which must agree.
RefreshIPv4Mutant(net) ==
  LET p == fetchIPViaCloudflareDOH("A", net)
      a == fetchIP(net.ipify)
  IN  IF p.ok THEN [ok |-> TRUE, val |-> p.val, err |-> "", calls |-> <<"cf4">>]
      ELSE IF ~a.ok THEN [ok |-> FALSE, val |-> "", err |-> a.err,
                          calls |-> <<"cf4", "ipify", "ifconfig">>]
      ELSE [ok |-> TRUE, val |-> a.val, err |-> "",
            calls |-> <<"cf4", "ipify", "ifconfig">>]
RefreshIPv4(net) ==
  LET p == fetchIPViaCloudflareDOH("A", net)
      a == fetchIP(net.ipify)
      b == fetchIP(net.ifconfig)
  IN  IF p.ok THEN [ok |-> TRUE, val |-> p.val, err |-> "", calls |-> <<"cf4">>]
      ELSE IF ~a.ok THEN [ok |-> FALSE, val |-> "", err |-> a.err,
                          calls |-> <<"cf4", "ipify", "ifconfig">>]
      ELSE IF ~b.ok THEN [ok |-> FALSE, val |-> "", err |-> b.err,
                          calls |-> <<"cf4", "ipify", "ifconfig">>]
      ELSE IF a.val # b.val THEN [ok |-> FALSE, val |-> "", err |-> ErrMismatch,
                                  calls |-> <<"cf4", "ipify", "ifconfig">>]
      ELSE [ok |-> TRUE, val |-> a.val, err |-> "",
            calls |-> <<"cf4", "ipify", "ifconfig">>]

\* Is the cached value of a family served without a refresh?
CacheFreshMutant(cur, last, t) == Truthy(cur)
CacheFresh(cur, last, t) == Truthy(cur) /\ t - last < CACHE_DURATION

\* getPublicIPv4 at time t: the result, the resolver's new fields and the
\* requests issued.
StaleFallbackMutant(r, cur) == [ok |-> FALSE, val |-> "", err |-> r.err]
StaleFallback(r, cur) ==
  IF Truthy(cur) THEN [ok |-> TRUE, val |-> cur, err |-> ""]
                 ELSE [ok |-> FALSE, val |-> "", err |-> r.err]

getPublicIPv4(ip, t, net) ==
  IF CacheFresh(ip.currentIPv4, ip.lastCheckIPv4, t)
    THEN [ok |-> TRUE, val |-> ip.currentIPv4, err |-> "", ip |-> ip,
          calls |-> <<>>]
    ELSE LET r == RefreshIPv4(net)
         IN  IF r.ok
               THEN [ok |-> TRUE, val |-> r.val, err |-> "",
                     ip |-> [ip EXCEPT !.currentIPv4 = r.val,
                                       !.lastCheckIPv4 = t],
                     calls |-> r.calls]
               ELSE LET f == StaleFallback(r, ip.currentIPv4)
                    IN  [ok |-> f.ok, val |-> f.val, err |-> f.err, ip |-> ip,
                         calls |-> r.calls]

\* A resolver with one timestamp for both families.
getPublicIPv6SharedMutant(ip, t, net) ==
  IF CacheFresh(ip.currentIPv6, ip.lastCheckIPv6, t)
    THEN [ok |-> TRUE, val |-> ip.currentIPv6, err |-> "", ip |-> ip,
          calls |-> <<>>]
    ELSE LET r == fetchIPViaCloudflareDOH("AAAA", net)
         IN  IF r.ok
               THEN [ok |-> TRUE, val |-> r.val, err |-> "",
                     ip |-> [ip EXCEPT !.currentIPv6 = r.val,
                                       !.lastCheckIPv6 = t,
                                       !.lastCheckIPv4 = t],
                     calls |-> <<"cf6">>]
               ELSE LET f == StaleFallback(r, ip.currentIPv6)
                    IN  [ok |-> f.ok, val |-> f.val, err |-> f.err, ip |-> ip,
                         calls |-> <<"cf6">>]

getPublicIPv6(ip, t, net) ==
  IF CacheFresh(ip.currentIPv6, ip.lastCheckIPv6, t)
    THEN [ok |-> TRUE, val |-> ip.currentIPv6, err |-> "", ip |-> ip,
          calls |-> <<>>]
    ELSE LET r == fetchIPViaCloudflareDOH("AAAA", net)
         IN  IF r.ok
               THEN [ok |-> TRUE, val |-> r.val, err |-> "",
                     ip |-> [ip EXCEPT !.currentIPv6 = r.val,
                                       !.lastCheckIPv6 = t],
                     calls |-> <<"cf6">>]
               ELSE LET f == StaleFallback(r, ip.currentIPv6)
                    IN  [ok |-> f.ok, val |-> f.val, err |-> f.err, ip |-> ip,
                         calls |-> <<"cf6">>]

getPublicIP(type, ip, t, net) ==
  IF type = "AAAA" THEN getPublicIPv6(ip, t, net) ELSE getPublicIPv4(ip, t, net)


(***************************************************************************)
(* Configuration (config.app): the defaults of the README and of the       *)
(* tests' setup.                                                           *)
(***************************************************************************)
DefaultRecordType == "A"
DefaultProxied == TRUE
DefaultTTL == 1

(***************************************************************************)
(* LabelValidator (src/src/utils/validators.ts).                           *)
(*                                                                         *)
(* A label map is a JavaScript object: a sequence of <<key, value>> pairs  *)
(* in insertion order, keys unique.  A key is the sequence of its          *)
(* dot-separated segments.  The value of a router rule is the sequence of  *)
(* its matcher clauses [m |-> "Host", v |-> "a.x.com"].                    *)
(***************************************************************************)
VALID_RECORD_TYPES == {"A", "AAAA", "CNAME", "TXT", "MX"}
PropertyNames == {"hostname", "type", "content", "proxied", "ttl"}

K(path) == <<"dns", "cloudflare">> \o path
KeyHostname == K(<<"hostname">>)
KeyType == K(<<"type">>)
KeyContent == K(<<"content">>)
KeyProxied == K(<<"proxied">>)
KeyTraefikEnable == <<"traefik", "enable">>
KeyRule(router) == <<"traefik", "http", "routers", router, "rule">>

\* key.startsWith("dns.cloudflare.")
HasDNSPrefix(key) == Len(key) >= 3 /\ key[1] = "dns" /\ key[2] = "cloudflare"
\* key.replace(prefix, "").split(".")
LabelPath(key) == SubSeq(key, 3, Len(key))
\* key.startsWith("traefik.http.routers.") && key.endsWith(".rule")
IsRouterRule(key) ==
  /\ Len(key) >= 4
  /\ key[1] = "traefik" /\ key[2] = "http" /\ key[3] = "routers"
  /\ key[Len(key)] = "rule"

\* labels[key], UNDEF when the key is absent.
Lookup(labels, key) ==
  IF \E i \in 1..Len(labels) : labels[i][1] = key
    THEN labels[CHOOSE i \in 1..Len(labels) : labels[i][1] = key][2]
    ELSE UNDEF

\* labels[key] = value: in place when the key exists, else appended.
SetLabel(labels, key, value) ==
  IF \E i \in 1..Len(labels) : labels[i][1] = key
    THEN [i \in 1..Len(labels) |->
            IF labels[i][1] = key THEN <<key, value>> ELSE labels[i]]
    ELSE Append(labels, <<key, value>>)

\* An object read at a property, UNDEF when it has none.
Get(obj, k) == IF k \in DOMAIN obj THEN obj[k] ELSE UNDEF
Put(obj, k, v) == [p \in DOMAIN obj \cup {k} |-> IF p = k THEN v ELSE obj[p]]
EmptyObj == [p \in {} |-> ""]

\* String.prototype.toUpperCase on the strings of the model.
toUpperCase(s) ==
  CASE s = "a" -> "A"
    [] s = "aaaa" -> "AAAA"
    [] s = "cname" -> "CNAME"
    [] s = "txt" -> "TXT"
    [] s = "mx" -> "MX"
    [] s = "srv" -> "SRV"
    [] OTHER -> s

\* parseInt(s, 10) on the strings of the model; parseInt(undefined) is NaN.
parseInt(s) ==
  CASE s = "1" -> 1
    [] s = "300" -> 300
    [] s = "3600" -> 3600
    [] s = "0" -> 0
    [] s = "-5" -> -5
    [] s = "60s" -> 60
    [] OTHER -> NaN

\* isValidIPv6: the regular expression's three alternatives; only the first
\* is anchored at the start and only the last at the end, so the second
\* accepts any string that contains a colon followed by a hex digit.
HasColonHex(s) ==
  s \in {"2001:db8::1", "2001:db8::2", "::1", "zz::1", "fe80::1%eth0"}
isValidIPv6(s) == HasColonHex(s) \/ s \in {":", "::"}

\* validateRecordType
validateRecordType(type) ==
  IF ~Truthy(type) THEN "A"
  ELSE IF toUpperCase(type) \notin VALID_RECORD_TYPES THEN "A"
  ELSE toUpperCase(type)

\* A DNSLabel: hostname, type and content are strings or UNDEF; proxied and
\* ttl are <<>> (undefined) or <<value>>.
DNSLabel(h, t, c, p, ttl) ==
  [hostname |-> h, type |-> t, content |-> c, proxied |-> p, ttl |-> ttl]

ProxiedOfMutant(label, type, includeDefaults) ==
  IF label.proxied # <<>> THEN label.proxied ELSE <<DefaultProxied>>
ProxiedOf(label, type, includeDefaults) ==
  IF label.proxied # <<>> THEN label.proxied
  ELSE IF type = "A" THEN <<TRUE>>
  ELSE IF type = "AAAA" THEN <<FALSE>>
  ELSE IF includeDefaults THEN <<DefaultProxied>>
  ELSE <<>>

TTLOf(label, includeDefaults) ==
  IF label.ttl # <<>> /\ label.ttl[1] # NaN /\ label.ttl[1] > 0 THEN label.ttl
  ELSE IF includeDefaults THEN <<DefaultTTL>>
  ELSE <<>>

\* A validation that lets a label without hostname through.
validateDNSLabelAnyHostMutant(label, includeDefaults) ==
  LET type == validateRecordType(label.type)
      final == DNSLabel(label.hostname, type, label.content,
                        ProxiedOf(label, type, includeDefaults),
                        TTLOf(label, includeDefaults))
  IN  IF label.content = UNDEF /\ type = "CNAME" THEN <<>>
      ELSE IF /\ type = "AAAA"
              /\ Truthy(final.content)
              /\ final.content # "public_ip"
              /\ ~isValidIPv6(final.content) THEN <<>>
      ELSE <<final>>

\* validateDNSLabel: <<the final label>>, or <<>> for null.
validateDNSLabel(label, includeDefaults) ==
  LET type == validateRecordType(label.type)
      final == DNSLabel(label.hostname, type, label.content,
                        ProxiedOf(label, type, includeDefaults),
                        TTLOf(label, includeDefaults))
  IN  IF ~Truthy(label.hostname) THEN <<>>
      ELSE IF label.content = UNDEF /\ type = "CNAME" THEN <<>>
      ELSE IF /\ type = "AAAA"
              /\ Truthy(final.content)
              /\ final.content # "public_ip"
              /\ ~isValidIPv6(final.content) THEN <<>>
      ELSE <<final>>

\* The values of the router rules, in key order.
RECURSIVE RouterRules(_)
RouterRules(labels) ==
  IF labels = <<>> THEN <<>>
  ELSE (IF IsRouterRule(Head(labels)[1]) THEN <<Head(labels)[2]>> ELSE <<>>)
       \o RouterRules(Tail(labels))

\* The hosts a rule's Host(`...`) clauses name, in order (the regular
\* expression needs at least one character between the backticks).
RECURSIVE HostsOf(_)
HostsOf(rule) ==
  IF rule = <<>> THEN <<>>
  ELSE (IF Head(rule).m = "Host" /\ Head(rule).v # "" THEN <<Head(rule).v>>
        ELSE <<>>) \o HostsOf(Tail(rule))

RECURSIVE Concat(_)
Concat(ss) == IF ss = <<>> THEN <<>> ELSE Head(ss) \o Concat(Tail(ss))

RECURSIVE MapHosts(_)
MapHosts(rules) ==
  IF rules = <<>> THEN <<>> ELSE <<HostsOf(Head(rules))>> \o MapHosts(Tail(rules))

\* extractHostnameFromTraefikRule: the first host of the first rule that
\* has one, or NULL.
extractHostnameFromTraefikRule(labels) ==
  LET hosts == Concat(MapHosts(RouterRules(labels)))
  IN  IF hosts = <<>> THEN NULL ELSE hosts[1]

\* A sequence without the later duplicates of its elements.
DistinctMutant(s) == s
RECURSIVE Distinct(_)
Distinct(s) ==
  IF s = <<>> THEN <<>>
  ELSE LET d == Distinct(SubSeq(s, 1, Len(s) - 1))
           x == s[Len(s)]
       IN  IF \E i \in 1..Len(d) : d[i] = x THEN d ELSE Append(d, x)

\* extractTraefikLabels
TraefikLabel(labels, hostname) ==
  LET t == Lookup(labels, KeyType)
      c == Lookup(labels, KeyContent)
      p == Lookup(labels, KeyProxied)
  IN  DNSLabel(hostname,
               IF Truthy(t) THEN t ELSE DefaultRecordType,
               IF Truthy(c) THEN c ELSE UNDEF,
               IF p # UNDEF THEN <<p = "true">> ELSE <<DefaultProxied>>,
               <<DefaultTTL>>)

RECURSIVE TraefikLabelsOf(_, _)
TraefikLabelsOf(labels, hosts) ==
  IF hosts = <<>> THEN <<>>
  ELSE validateDNSLabel(TraefikLabel(labels, Head(hosts)), TRUE)
       \o TraefikLabelsOf(labels, Tail(hosts))

extractTraefikLabels(labels) ==
  IF Lookup(labels, KeyTraefikEnable) # "true" THEN <<>>
  ELSE TraefikLabelsOf(labels, Distinct(Concat(MapHosts(RouterRules(labels)))))

\* The (group, property) a label path names: a path of one segment is a
\* property of the group "default"; otherwise a leading property name makes
\* the second segment the group, and else the first segment is the group.
GroupOfMutant(parts) ==
  IF Len(parts) > 1
    THEN [group |-> parts[1], property |-> parts[2]]
    ELSE [group |-> "default", property |-> parts[1]]
GroupOf(parts) ==
  IF Len(parts) > 1
    THEN IF parts[1] \in PropertyNames
           THEN [group |-> parts[2], property |-> parts[1]]
           ELSE [group |-> parts[1], property |-> parts[2]]
    ELSE [group |-> "default", property |-> parts[1]]

\* The shared default values: the paths without a dot.
RECURSIVE DefaultValues(_)
DefaultValues(labels) ==
  IF labels = <<>> THEN EmptyObj
  ELSE LET d == DefaultValues(SubSeq(labels, 1, Len(labels) - 1))
           kv == labels[Len(labels)]
       IN  IF HasDNSPrefix(kv[1]) /\ Len(LabelPath(kv[1])) = 1
             THEN Put(d, LabelPath(kv[1])[1], kv[2])
             ELSE d

\* The groups, a Map in insertion order: a sequence of [id, props].
RECURSIVE Groups(_)
Groups(labels) ==
  IF labels = <<>> THEN <<>>
  ELSE LET gs == Groups(SubSeq(labels, 1, Len(labels) - 1))
           kv == labels[Len(labels)]
           gp == GroupOf(LabelPath(kv[1]))
       IN  IF ~HasDNSPrefix(kv[1]) THEN gs
           ELSE IF \E i \in 1..Len(gs) : gs[i].id = gp.group
             THEN [i \in 1..Len(gs) |->
                     IF gs[i].id = gp.group
                       THEN [gs[i] EXCEPT !.props = Put(@, gp.property, kv[2])]
                       ELSE gs[i]]
             ELSE Append(gs, [id |-> gp.group,
                              props |-> Put(EmptyObj, gp.property, kv[2])])

\* The default values merged under a group's own properties.
WithDefaults(props, defaults) ==
  [p \in DOMAIN props \cup DOMAIN defaults |->
     IF Get(props, p) = UNDEF THEN defaults[p] ELSE props[p]]

\* The DNSLabel built from a group and whether the defaults are included.
GroupLabel(g) ==
  DNSLabel(Get(g, "hostname"),
           IF Get(g, "type") = UNDEF THEN UNDEF ELSE toUpperCase(g["type"]),
           Get(g, "content"),
           IF Get(g, "proxied") # UNDEF THEN <<g["proxied"] = "true">> ELSE <<>>,
           <<parseInt(Get(g, "ttl"))>>)

IncludeDefaults(label) == label.type \in {"A", UNDEF, "AAAA", "CNAME"}

\* A map over the groups that gives up at the first invalid group.
RECURSIVE GroupLabelsAbortMutant(_, _)
GroupLabelsAbortMutant(gs, defaults) ==
  IF gs = <<>> THEN <<>>
  ELSE LET label == GroupLabel(WithDefaults(Head(gs).props, defaults))
           r == validateDNSLabel(label, IncludeDefaults(label))
       IN  IF r = <<>> THEN <<>>
           ELSE r \o GroupLabelsAbortMutant(Tail(gs), defaults)

RECURSIVE GroupLabels(_, _)
GroupLabels(gs, defaults) ==
  IF gs = <<>> THEN <<>>
  ELSE LET label == GroupLabel(WithDefaults(Head(gs).props, defaults))
       IN  validateDNSLabel(label, IncludeDefaults(label))
           \o GroupLabels(Tail(gs), defaults)

\* extractDNSLabels: the records, and the label map as the call leaves it
\* (the hostname of a router rule is written into it).
extractDNSLabels(labels, useTraefik) ==
  LET h == extractHostnameFromTraefikRule(labels)
      ls == IF ~Truthy(Lookup(labels, KeyHostname)) /\ useTraefik /\ Truthy(h)
              THEN SetLabel(labels, KeyHostname, h)
              ELSE labels
  IN  [records |-> GroupLabels(Groups(ls), DefaultValues(ls)), labels |-> ls]

\* validateServiceLabels
validateServiceLabels(labels, useTraefik) ==
  IF /\ useTraefik
     /\ Lookup(labels, KeyTraefikEnable) = "true"
     /\ extractTraefikLabels(labels) # <<>>
    THEN [records |-> extractTraefikLabels(labels), labels |-> labels]
    ELSE extractDNSLabels(labels, useTraefik)

(***************************************************************************)
(* CloudflareService, at its boundary: get(name, type), create(record),    *)
(* update(id, record) on the zone, a sequence of records in creation       *)
(* order.                                                                  *)
(***************************************************************************)
DNSRecord(type, name, content, ttl, proxied) ==
  [type |-> type, name |-> name, content |-> content, ttl |-> ttl,
   proxied |-> proxied]

Observed(id, r) ==
  [id |-> id, type |-> r.type, name |-> r.name, content |-> r.content,
   ttl |-> r.ttl, proxied |-> r.proxied]

\* getDNSRecord: <<the first record of that name and type>>, or <<>>.
getDNSRecord(z, name, type) ==
  LET hits == {i \in 1..Len(z) : z[i].name = name /\ z[i].type = type}
  IN  IF hits = {} THEN <<>>
      ELSE <<z[CHOOSE i \in hits : \A j \in hits : i <= j]>>

createDNSRecord(z, r) == Append(z, Observed(Len(z) + 1, r))

updateDNSRecord(z, id, r) ==
  [i \in 1..Len(z) |-> IF z[i].id = id THEN Observed(id, r) ELSE z[i]]

(***************************************************************************)
(* DNSService (src/src/services/dns.service.ts).                           *)
(***************************************************************************)
ErrProvider == "provider request failed"
ErrInspect == "container inspect failed"

MAX_ATTEMPTS == 3

\* The task createOrUpdateDNSRecord builds; recordId is 0 when absent.
NewTaskMutant(id, serviceName, record, existing) ==
  [id |-> id,
   type |-> IF existing # <<>> THEN "UPDATE" ELSE "CREATE",
   status |-> "PENDING", attempts |-> 0, maxAttempts |-> MAX_ATTEMPTS + 1,
   data |-> [serviceName |-> serviceName, recordType |-> record.type,
             name |-> record.name, content |-> record.content,
             ttl |-> record.ttl, proxied |-> record.proxied,
             recordId |-> IF existing # <<>> THEN existing[1].id ELSE 0]]
NewTask(id, serviceName, record, existing) ==
  [id |-> id,
   type |-> IF existing # <<>> THEN "UPDATE" ELSE "CREATE",
   status |-> "PENDING", attempts |-> 0, maxAttempts |-> MAX_ATTEMPTS,
   data |-> [serviceName |-> serviceName, recordType |-> record.type,
             name |-> record.name, content |-> record.content,
             ttl |-> record.ttl, proxied |-> record.proxied,
             recordId |-> IF existing # <<>> THEN existing[1].id ELSE 0]]

\* The record createOrUpdateDNSRecord compares and sends.
RecordOf(name, recordType, content, ttl, proxied) ==
  DNSRecord(IF Truthy(recordType) THEN recordType ELSE "A",
            name,
            content,
            IF ttl # <<>> /\ ttl[1] # 0 /\ ttl[1] # NaN THEN ttl[1] ELSE 1,
            IF proxied # <<>> THEN proxied[1] ELSE TRUE)

needsUpdateIdentityMutant(existingRecord, record) == TRUE
needsUpdateMutant(existingRecord, record) ==
  existingRecord.content # record.content
needsUpdate(existingRecord, record) ==
  \/ existingRecord.content # record.content
  \/ existingRecord.ttl # record.ttl
  \/ existingRecord.proxied # record.proxied

\* The state a handler threads through its loop: the resolver's fields, the
\* tasks handed to addTask, the trace of what was done for each record, the
\* error thrown, the number of provider reads and the next task id.
Start(ip, nextId) ==
  [ip |-> ip, tasks |-> <<>>, log |-> <<>>, threw |-> FALSE, err |-> "",
   gets |-> 0, nextId |-> nextId]

NoResolve == [called |-> FALSE, ok |-> TRUE, val |-> "", err |-> "",
              calls |-> <<>>, answers |-> <<>>, cur |-> "", last |-> 0,
              curAfter |-> "", lastAfter |-> 0]

\* What one getPublicIP call saw and did, for the trace: the requests it
\* issued and the answers they got.
ResolveTrace(type, before, r, net) ==
  [called |-> TRUE, ok |-> r.ok, val |-> r.val, err |-> r.err,
   calls |-> r.calls,
   answers |-> [i \in 1..Len(r.calls) |-> net[r.calls[i]]],
   cur |-> IF type = "AAAA" THEN before.currentIPv6 ELSE before.currentIPv4,
   last |-> IF type = "AAAA" THEN before.lastCheckIPv6 ELSE before.lastCheckIPv4,
   curAfter |-> IF type = "AAAA" THEN r.ip.currentIPv6 ELSE r.ip.currentIPv4,
   lastAfter |-> IF type = "AAAA" THEN r.ip.lastCheckIPv6
                                  ELSE r.ip.lastCheckIPv4]

Entry(label, step, res, record, existing, task) ==
  [label |-> label, step |-> step, res |-> res, record |-> record,
   existing |-> existing, task |-> task]

\* createOrUpdateDNSRecord: read the observed record, compare, add a task.
\* env.failAt is the provider read that fails in this call (0: none).
createOrUpdateDNSRecord(st, env, label, res, name, recordType, content, ttl, proxied) ==
  LET record == RecordOf(name, recordType, content, ttl, proxied)
      existing == getDNSRecord(env.zone, name, record.type)
      task == NewTask(st.nextId, env.serviceName, record, existing)
  IN  IF st.gets + 1 = env.failAt
        THEN [st EXCEPT !.threw = TRUE, !.err = ErrProvider,
                        !.gets = @ + 1,
                        !.log = Append(@, Entry(label, "getFailed", res,
                                                <<record>>, <<>>, <<>>))]
      ELSE IF existing # <<>> /\ ~needsUpdate(existing[1], record)
        THEN [st EXCEPT !.gets = @ + 1,
                        !.log = Append(@, Entry(label, "upToDate", res,
                                                <<record>>, existing, <<>>))]
      ELSE [st EXCEPT !.gets = @ + 1,
                      !.nextId = @ + 1,
                      !.tasks = Append(@, task),
                      !.log = Append(@, Entry(label, "queued", res,
                                              <<record>>, existing,
                                              <<task>>))]

IsSentinelMutant(content) == ~Truthy(content)
IsSentinel(content) == ~Truthy(content) \/ content = "public_ip"

\* One turn of handleServiceUpdate's loop.
ResolveFailureMutant(st, label, recordType, res, r) ==
  [st EXCEPT !.ip = r.ip, !.threw = TRUE, !.err = r.err,
             !.log = Append(@, Entry(label, "resolveFailed", res,
                                     <<>>, <<>>, <<>>))]
ResolveFailureSkipMutant(st, label, recordType, res, r) ==
  [st EXCEPT !.ip = r.ip,
             !.log = Append(@, Entry(label, "skipped", res,
                                     <<>>, <<>>, <<>>))]
ResolveFailure(st, label, recordType, res, r) ==
  IF recordType = "AAAA"
    THEN [st EXCEPT !.ip = r.ip,
                    !.log = Append(@, Entry(label, "skipped", res,
                                            <<>>, <<>>, <<>>))]
    ELSE [st EXCEPT !.ip = r.ip, !.threw = TRUE, !.err = r.err,
                    !.log = Append(@, Entry(label, "resolveFailed", res,
                                            <<>>, <<>>, <<>>))]

HandleLabel(st, env, label) ==
  LET recordType == IF Truthy(label.type) THEN label.type ELSE "A"
      r == getPublicIP(recordType, st.ip, env.t, env.net)
      res == ResolveTrace(recordType, st.ip, r, env.net)
  IN  IF ~IsSentinel(label.content)
        THEN createOrUpdateDNSRecord(st, env, label, NoResolve, label.hostname,
                                     label.type, label.content, label.ttl,
                                     label.proxied)
      ELSE IF ~r.ok THEN ResolveFailure(st, label, recordType, res, r)
      ELSE createOrUpdateDNSRecord([st EXCEPT !.ip = r.ip], env, label, res,
                                   label.hostname, label.type, r.val,
                                   label.ttl, label.proxied)

RECURSIVE HandleLabels(_, _, _)
HandleLabels(st, env, dnsLabels) ==
  IF dnsLabels = <<>> \/ st.threw THEN st
  ELSE HandleLabels(HandleLabel(st, env, Head(dnsLabels)), env, Tail(dnsLabels))

(***************************************************************************)
(* DNSService: the periodic address check.                                 *)
(*                                                                         *)
(* A check carries ck = [st, visits]: st as in handleServiceUpdate, visits *)
(* the containers the re-checks went through, each with the log entries of *)
(* its records.  env.listFail is the record type whose listContainers call *)
(* fails ("" for none), env.inspectFail the container whose inspection     *)
(* fails ("" for none), env.running the containers Docker lists, in order. *)
(***************************************************************************)
ErrList == "listContainers failed"

\* lastKnownIP && lastKnownIP !== currentIP
addressChangedMutant(known, current) == FALSE
addressChanged(known, current) == Truthy(known) /\ known # current

\* shouldUpdate: the record is of the type and its content is the address.
shouldUpdateMutant(label, recordType) == label.type = recordType
shouldUpdate(label, recordType) ==
  label.type = recordType /\ IsSentinel(label.content)

\* The loop over a container's records in updateAllRecordsWithIP; a
\* rejection of createOrUpdateDNSRecord leaves the loop.
RECURSIVE UpdateLabels(_, _, _, _, _)
UpdateLabels(st, env, dnsLabels, recordType, newIP) ==
  IF dnsLabels = <<>> \/ st.threw THEN st
  ELSE LET label == Head(dnsLabels)
           st1 == IF shouldUpdate(label, recordType)
                    THEN createOrUpdateDNSRecord(st, env, label, NoResolve,
                                                 label.hostname, label.type,
                                                 newIP, label.ttl,
                                                 label.proxied)
                    ELSE st
       IN  UpdateLabels(st1, env, Tail(dnsLabels), recordType, newIP)

\* catch (containerError): logged, the loop over the containers goes on.
catchContainerErrorMutant(st) == st
catchContainerError(st) == [st EXCEPT !.threw = FALSE, !.err = ""]

Visit(e, recordType, outcome, log) ==
  [entity |-> e, type |-> recordType, outcome |-> outcome, log |-> log]

\* One container of the loop of updateAllRecordsWithIP.
UpdateContainer(ck, env, e, recordType, newIP) ==
  IF e = env.inspectFail
    THEN LET st1 == catchContainerError([ck.st EXCEPT !.threw = TRUE,
                                                      !.err = ErrInspect])
         IN  [st |-> st1,
              visits |-> Append(ck.visits,
                                Visit(e, recordType, "inspectFailed", <<>>))]
    ELSE LET dnsLabels == validateServiceLabels(env.containers[e],
                                                env.useTraefik).records
             st1 == UpdateLabels(ck.st, [env EXCEPT !.serviceName = e],
                                 dnsLabels, recordType, newIP)
             added == SubSeq(st1.log, Len(ck.st.log) + 1, Len(st1.log))
         IN  [st |-> catchContainerError(st1),
              visits |-> Append(ck.visits,
                                Visit(e, recordType,
                                      IF st1.threw THEN "failed" ELSE "done",
                                      added))]

RECURSIVE UpdateContainers(_, _, _, _, _)
UpdateContainers(ck, env, running, recordType, newIP) ==
  IF running = <<>> \/ ck.st.threw THEN ck
  ELSE UpdateContainers(UpdateContainer(ck, env, Head(running), recordType,
                                        newIP),
                        env, Tail(running), recordType, newIP)

\* updateAllRecordsWithIP: list the running containers and go through them;
\* a rejection of listContainers is rethrown.
updateAllRecordsWithIP(ck, env, recordType, newIP) ==
  IF env.listFail = recordType
    THEN [ck EXCEPT !.st.threw = TRUE, !.st.err = ErrList,
                    !.visits = Append(@, Visit("", recordType, "listFailed",
                                               <<>>))]
    ELSE UpdateContainers(ck, env, env.running, recordType, newIP)

\* catch (ipv6Error): logged, the check goes on.
catchIPv6ErrorMutant(st) == st
catchIPv6Error(st) == [st EXCEPT !.threw = FALSE, !.err = ""]

\* What a check did: its state, its visits, the last known addresses before
\* and after it, the two resolutions, and the number of checks so far that
\* failed to resolve the IPv4 address.
Checked(ck, env, known4, known6, res4, res6) ==
  [ran |-> TRUE, threw |-> ck.st.threw, err |-> ck.st.err, t |-> env.t,
   tasks |-> ck.st.tasks, visits |-> ck.visits,
   before |-> [v4 |-> env.lastKnownIPv4, v6 |-> env.lastKnownIPv6],
   lastKnownIPv4 |-> known4, lastKnownIPv6 |-> known6,
   res4 |-> res4, res6 |-> res6, ip |-> ck.st.ip, nextId |-> ck.st.nextId,
   failures |-> env.failures + (IF res4.ok THEN 0 ELSE 1)]

\* The IPv6 half of checkAndUpdateIPAddresses, inside its own try block.
CheckIPv6(ck, env, known4, res4) ==
  LET r6 == getPublicIPv6(ck.st.ip, env.t, env.net)
      res6 == ResolveTrace("AAAA", ck.st.ip, r6, env.net)
      ck0 == [ck EXCEPT !.st.ip = r6.ip]
      ck1 == IF addressChanged(env.lastKnownIPv6, r6.val)
               THEN updateAllRecordsWithIP(ck0, env, "AAAA", r6.val)
               ELSE ck0
  IN  IF ~r6.ok
        THEN Checked([ck0 EXCEPT !.st = catchIPv6Error(
                                          [ck0.st EXCEPT !.threw = TRUE,
                                                         !.err = r6.err])],
                     env, known4, env.lastKnownIPv6, res4, res6)
      ELSE IF ck1.st.threw
        THEN Checked([ck1 EXCEPT !.st = catchIPv6Error(ck1.st)],
                     env, known4, env.lastKnownIPv6, res4, res6)
      ELSE Checked(ck1, env, known4, r6.val, res4, res6)

\* checkAndUpdateIPAddresses.
checkAndUpdateIPAddresses(st, env) ==
  LET r4 == getPublicIPv4(st.ip, env.t, env.net)
      res4 == ResolveTrace("A", st.ip, r4, env.net)
      ck0 == [st |-> [st EXCEPT !.ip = r4.ip], visits |-> <<>>]
      ck1 == IF addressChanged(env.lastKnownIPv4, r4.val)
               THEN updateAllRecordsWithIP(ck0, env, "A", r4.val)
               ELSE ck0
  IN  IF ~r4.ok
        THEN Checked([ck0 EXCEPT !.st.threw = TRUE, !.st.err = r4.err],
                     env, env.lastKnownIPv4, env.lastKnownIPv6, res4,
                     NoResolve)
      ELSE IF ck1.st.threw
        THEN Checked(ck1, env, env.lastKnownIPv4, env.lastKnownIPv6, res4,
                     NoResolve)
      ELSE CheckIPv6(ck1, env, r4.val, res4)

(***************************************************************************)
(* The containers of the model and their labels.                           *)
(***************************************************************************)
HostApp == "app.x.com"
HostApi == "api.x.com"

\* An A record whose content is the public address.
LabelsA ==
  << <<K(<<"hostname">>), HostApp>>, <<K(<<"type">>), "A">> >>
\* An A record and an AAAA record, both with the public address (the labels
\* of the reconciler's tests).
LabelsAThenAAAA ==
  << <<K(<<"hostname">>), HostApp>>, <<K(<<"type">>), "A">>,
     <<K(<<"hostname", "v6">>), HostApp>>, <<K(<<"type", "v6">>), "AAAA">> >>
\* The same records declared the other way round, as two named groups.
LabelsAAAAThenA ==
  << <<K(<<"v6", "hostname">>), HostApp>>, <<K(<<"v6", "type">>), "aaaa">>,
     <<K(<<"v4", "hostname">>), HostApp>>,
     <<K(<<"v4", "content">>), "public_ip">> >>
\* An A record with explicit content, ttl and proxied.
LabelsExplicit ==
  << <<K(<<"hostname">>), HostApi>>, <<K(<<"content">>), "5.6.7.8">>,
     <<K(<<"ttl">>), "300">>, <<K(<<"proxied">>), "false">> >>

\* A second container: an A record with the public address, type defaulted.
LabelsApi ==
  << <<K(<<"hostname">>), HostApi>> >>

Entities == {"web", "api"}
\* The order in which Docker lists the running containers.
ListOrder == <<"web", "api">>
LabelChoices == {LabelsA, LabelsAThenAAAA, LabelsAAAAThenA, LabelsExplicit}

\* The zone at startup: empty, or holding a record for the web host that
\* somebody created with another ttl and without the proxy.
ZoneChoices ==
  { <<>>,
    <<Observed(1, DNSRecord("A", HostApp, "1.2.3.4", 300, FALSE))>> }

(***************************************************************************)
(* State.                                                                  *)
(***************************************************************************)
VARIABLES
  ipService,        \* IPService: currentIPv4/6, lastCheckIPv4/6
  now,              \* Date.now()
  containers,       \* the running containers' labels (Docker)
  useTraefikLabels, \* config.app.useTraefikLabels
  zone,             \* the provider's records
  queue,            \* TaskWorker: the pending tasks, in order
  inProgress,       \* TaskWorker: the tasks being applied
  draining,         \* TaskWorker: a processTasks pass is running
  passLeft,         \* TaskWorker: tasks of the pass not yet taken
  nextTaskId,       \* the next task id (uuid)
  finished,         \* history: the tasks that left the queue, in order
  tries,            \* history: provider calls made for each task id
  pass,             \* history: the running or last pass
  call,             \* history: the last handler call
  ops,              \* number of handler calls made
  lastKnownIPv4,    \* DNSService.lastKnownIPv4
  lastKnownIPv6,    \* DNSService.lastKnownIPv6
  ipCheckInterval,  \* Application: the address check's timer is set
  check,            \* history: the last periodic address check
  event,            \* history: the last Docker event DockerService handled
  handlers,         \* the handleServiceUpdate calls that have not returned
  exited            \* the process has exited

vars == <<ipService, now, containers, useTraefikLabels, zone, queue,
          inProgress, draining, passLeft, nextTaskId, finished, tries, pass,
          call, ops, lastKnownIPv4, lastKnownIPv6, ipCheckInterval, check,
          event, handlers, exited>>

\* The reconciler's last known addresses, the timer, the trace of the
\* periodic check, the trace of the Docker events and the calls in flight.
monitorVars == <<lastKnownIPv4, lastKnownIPv6, ipCheckInterval, check, event, handlers, exited>>

TickMs == CACHE_DURATION \div 2

\* What a handler call was given and did.
Call(op, entity, st, t, duringPass) ==
  [op |-> op, entity |-> entity, threw |-> st.threw,
   err |-> st.err, log |-> st.log, tasks |-> st.tasks, t |-> t,
   duringPass |-> duringPass]

NoCall ==
  Call("none", "", Start(IPState(NULL, 0, NULL, 0), 1), 0, FALSE)

\* No periodic check has run.
NoCheck == [ran |-> FALSE]

\* What DockerService did with a Docker event (or with its startup scan):
\* the inspections it made, the events it emitted to its listeners and
\* whether a listener of the application took them.
DockerTrace(action, entity, inspected, emitted, taken) ==
  [ran |-> TRUE, action |-> action, entity |-> entity,
   inspected |-> inspected, emitted |-> emitted, taken |-> taken]
NoEvent ==
  [ran |-> FALSE, action |-> "", entity |-> "", inspected |-> 0,
   emitted |-> <<>>, taken |-> FALSE]

Init ==
  /\ ipService = IPState(NULL, 0, NULL, 0)
  /\ now = StartTime
  /\ containers \in [{"web"} -> LabelChoices]
  /\ useTraefikLabels = FALSE
  /\ zone \in ZoneChoices
  /\ queue = <<>>
  /\ inProgress = <<>>
  /\ draining = FALSE
  /\ passLeft = 0
  /\ nextTaskId = 1
  /\ finished = <<>>
  /\ tries = [i \in {} |-> 0]
  /\ pass = [snapshot |-> <<>>, attempted |-> <<>>]
  /\ call = NoCall
  /\ ops = 0
  /\ lastKnownIPv4 = NULL
  /\ lastKnownIPv6 = NULL
  /\ ipCheckInterval = FALSE
  /\ check = NoCheck
  /\ event = NoEvent
  /\ handlers = <<>>
  /\ exited = FALSE

(***************************************************************************)
(* Actions.                                                                *)
(***************************************************************************)
\* Time passes.
Tick ==
  /\ now < StartTime + MaxTicks * TickMs
  /\ now' = now + TickMs
  /\ UNCHANGED monitorVars
  /\ UNCHANGED <<ipService, containers, useTraefikLabels, zone, queue,
                 inProgress, draining, passLeft, nextTaskId, finished, tries,
                 pass, call, ops>>

\* DNSService.handleServiceUpdate(e, labels), on a dns-update event: inspect
\* the container, parse its labels, resolve, compare and add the tasks.
\* fault: 0 when Docker and the provider answer, -1 when the inspection
\* fails, n > 0 when the n-th read of the provider fails.
Faults == -1..2

HandleResult(e, net, fault) ==
  LET env == [t |-> now, net |-> net, zone |-> zone, failAt |-> fault,
              serviceName |-> e]
      st0 == Start(ipService, nextTaskId)
  IN  IF fault = -1 THEN [st0 EXCEPT !.threw = TRUE, !.err = ErrInspect]
      ELSE HandleLabels(st0, env,
             validateServiceLabels(containers[e], useTraefikLabels).records)

\* TaskWorker.addTask for each task, in order.
addTasksMutant(q, tasks) == q
addTasks(q, tasks) == q \o tasks

HandleServiceUpdate(e, nets, faults) ==
  /\ ops < MaxOps
  /\ e \in DOMAIN containers
  /\ \E net \in nets, fault \in faults :
       \E st \in {HandleResult(e, net, fault)} :
           /\ Len(queue) + Len(inProgress) + Len(st.tasks) <= MaxQueue
           /\ ipService' = st.ip
           /\ queue' = addTasks(queue, st.tasks)
           /\ nextTaskId' = st.nextId
           /\ tries' = [i \in DOMAIN tries \cup {t.id : t \in Range(st.tasks)}
                          |-> IF i \in DOMAIN tries THEN tries[i] ELSE 0]
           /\ call' = Call("handleServiceUpdate", e, st, now, draining)
  /\ ops' = ops + 1
  /\ UNCHANGED monitorVars
  /\ UNCHANGED <<now, containers, useTraefikLabels, zone, inProgress,
                 draining, passLeft, finished, pass>>

\* IPService.getPublicIP(type), called on its own.
GetPublicIP(type, nets) ==
  /\ \E net \in nets :
       \E r \in {getPublicIP(type, ipService, now, net)} :
         /\ ipService' = r.ip
         /\ call' = Call("getPublicIP", type,
                         [Start(r.ip, nextTaskId) EXCEPT
                            !.threw = ~r.ok, !.err = r.err,
                            !.log = <<Entry(DNSLabel(UNDEF, type, UNDEF,
                                                     <<>>, <<>>),
                                            "resolve",
                                            ResolveTrace(type, ipService, r,
                                                         net),
                                            <<>>, <<>>, <<>>)>>],
                         now, draining)
  /\ UNCHANGED monitorVars
  /\ UNCHANGED <<now, containers, useTraefikLabels, zone, queue, inProgress,
                 draining, passLeft, nextTaskId, finished, tries, pass, ops>>

(***************************************************************************)
(* TaskWorker: the queue and its drain pass.                               *)
(***************************************************************************)
Ids(q) == [i \in 1..Len(q) |-> q[i].id]

\* processTasks(): a pass over the tasks queued at this moment.
ProcessTasks ==
  /\ ~draining
  /\ queue # <<>>
  /\ draining' = TRUE
  /\ passLeft' = Len(queue)
  /\ pass' = [snapshot |-> Ids(queue), attempted |-> <<>>]
  /\ UNCHANGED monitorVars
  /\ UNCHANGED <<ipService, now, containers, useTraefikLabels, zone, queue,
                 inProgress, nextTaskId, finished, tries, call, ops>>

\* One task in flight at a time: the pass awaits each provider call.
mayTakeMutant(flying) == TRUE
mayTake(flying) == flying = <<>>

\* The pass takes the task at the head of the queue.
TakeTask ==
  /\ draining
  /\ passLeft > 0
  /\ mayTake(inProgress)
  /\ inProgress' = Append(inProgress,
                          [Head(queue) EXCEPT !.status = "IN_PROGRESS"])
  /\ queue' = Tail(queue)
  /\ passLeft' = passLeft - 1
  /\ pass' = [pass EXCEPT !.attempted = Append(@, Head(queue).id)]
  /\ UNCHANGED monitorVars
  /\ UNCHANGED <<ipService, now, containers, useTraefikLabels, zone,
                 draining, nextTaskId, finished, tries, call, ops>>

\* The provider call of a task.
applyTask(z, task) ==
  IF task.type = "CREATE"
    THEN createDNSRecord(z, DNSRecord(task.data.recordType, task.data.name,
                                      task.data.content, task.data.ttl,
                                      task.data.proxied))
    ELSE updateDNSRecord(z, task.data.recordId,
                         DNSRecord(task.data.recordType, task.data.name,
                                   task.data.content, task.data.ttl,
                                   task.data.proxied))

\* A failed attempt: back to the tail of the queue, or FAILED for good.
afterFailure(task) ==
  LET t == [task EXCEPT !.attempts = @ + 1]
  IN  IF t.attempts < t.maxAttempts THEN [t EXCEPT !.status = "PENDING"]
                                    ELSE [t EXCEPT !.status = "FAILED"]

\* A task that may be tried again goes back to the tail of the queue.
requeueMutant(q, task) == q
requeue(q, task) == Append(q, task)

\* The pass goes on with the next task whatever the outcome of this one.
passContinuesMutant(ok, left) == ok /\ left > 0
passContinues(ok, left) == left > 0

Without(s, i) == SubSeq(s, 1, i - 1) \o SubSeq(s, i + 1, Len(s))

\* The provider call of a task in progress returns.
FinishTask(outcomes) ==
  \E i \in 1..Len(inProgress), ok \in outcomes :
    LET task == inProgress[i]
        failed == afterFailure(task)
    IN  /\ IF ok
             THEN /\ zone' = applyTask(zone, task)
                  /\ finished' = Append(finished,
                                        [task EXCEPT !.status = "COMPLETED"])
                  /\ queue' = queue
             ELSE /\ zone' = zone
                  /\ IF failed.status = "PENDING"
                       THEN /\ queue' = requeue(queue, failed)
                            /\ finished' = finished
                       ELSE /\ queue' = queue
                            /\ finished' = Append(finished, failed)
        /\ tries' = [tries EXCEPT ![task.id] = @ + 1]
        /\ inProgress' = Without(inProgress, i)
        /\ draining' = passContinues(ok, passLeft)
        /\ passLeft' = IF draining' THEN passLeft ELSE 0
        /\ UNCHANGED monitorVars
        /\ UNCHANGED <<ipService, now, containers, useTraefikLabels,
                       nextTaskId, pass, call, ops>>

\* The whole system: any answer of the address sources, any failure of
\* Docker and of the provider.
Next ==
  \/ Tick
  \/ \E type \in {"A", "AAAA"} : GetPublicIP(type, NetAnswersAll)
  \/ \E e \in Entities : HandleServiceUpdate(e, NetAnswers, Faults)
  \/ ProcessTasks
  \/ TakeTask
  \/ FinishTask(BOOLEAN)

Spec == Init /\ [][Next]_vars

\* The resolver on its own, as time passes.
InitResolver ==
  /\ Init
  /\ containers["web"] = LabelsA
  /\ zone = <<>>

NextResolver ==
  \/ Tick
  \/ \E type \in {"A", "AAAA"} : GetPublicIP(type, NetAnswersAll)

SpecResolver == InitResolver /\ [][NextResolver]_vars

\* The reconciler under every answer of the address sources and every
\* failure of Docker and of the provider's reads, with a provider that
\* applies every task it is sent.
NextReconciler ==
  \/ \E e \in Entities : HandleServiceUpdate(e, NetAnswers, Faults)
  \/ ProcessTasks
  \/ TakeTask
  \/ FinishTask({TRUE})

SpecReconciler == Init /\ [][NextReconciler]_vars

\* The task queue under every outcome of the provider's writes, fed by a
\* container that declares two records, with address sources that answer.
NetUp ==
  { [cf4 |-> "1.2.3.4", ipify |-> ETIMEDOUT, ifconfig |-> ETIMEDOUT,
     cf6 |-> "2001:db8::1"] }

InitQueue ==
  /\ Init
  /\ containers["web"] = LabelsAThenAAAA
  /\ zone = <<>>

NextQueue ==
  \/ \E e \in Entities : HandleServiceUpdate(e, NetUp, {0})
  \/ ProcessTasks
  \/ TakeTask
  \/ FinishTask(BOOLEAN)

SpecQueue == InitQueue /\ [][NextQueue]_vars

(***************************************************************************)
(* Application: the periodic address check.                                *)
(***************************************************************************)
\* The timer callback catches the rejection of the check; the timer stays.
afterCallbackMutant(timer, threw) == timer /\ ~threw
afterCallback(timer, threw) == timer

InFleet(e) == e \in DOMAIN containers

\* The callback of setInterval: checkAndUpdateIPAddresses under try/catch.
IPCheckTick(nets, listFails, inspectFails, failAts) ==
  /\ ipCheckInterval
  /\ ops < MaxChecks
  /\ \E net \in nets, lf \in listFails, if \in inspectFails, fa \in failAts :
       \E c \in {checkAndUpdateIPAddresses(
                   Start(ipService, nextTaskId),
                   [t |-> now, net |-> net, zone |-> zone, failAt |-> fa,
                    serviceName |-> "", listFail |-> lf, inspectFail |-> if,
                    running |-> SelectSeq(ListOrder, InFleet),
                    containers |-> containers,
                    useTraefik |-> useTraefikLabels,
                    lastKnownIPv4 |-> lastKnownIPv4,
                    lastKnownIPv6 |-> lastKnownIPv6,
                    failures |-> IF check.ran THEN check.failures ELSE 0])} :
         /\ ipService' = c.ip
         /\ queue' = addTasks(queue, c.tasks)
         /\ nextTaskId' = c.nextId
         /\ tries' = [i \in DOMAIN tries \cup {t.id : t \in Range(c.tasks)}
                        |-> IF i \in DOMAIN tries THEN tries[i] ELSE 0]
         /\ lastKnownIPv4' = c.lastKnownIPv4
         /\ lastKnownIPv6' = c.lastKnownIPv6
         /\ ipCheckInterval' = afterCallback(ipCheckInterval, c.threw)
         /\ check' = c
  /\ ops' = ops + 1
  /\ UNCHANGED <<now, containers, useTraefikLabels, zone, inProgress,
                 draining, passLeft, finished, pass, call, event, handlers, exited>>

\* The address sources of the periodic check: the primary IPv4 source
\* answers or not (the fallback providers are down), the IPv6 source answers
\* or the network has no IPv6.
NetPeriodic ==
  { [cf4 |-> p, ipify |-> ETIMEDOUT, ifconfig |-> ETIMEDOUT, cf6 |-> q] :
      p \in IPv4Addrs \cup {ETIMEDOUT}, q \in IPv6Addrs \cup {ENETUNREACH} }

\* The application started with two containers running; the provider holds
\* the web host's records with the first addresses.
ZonePeriodic ==
  << Observed(1, DNSRecord("A", HostApp, "1.2.3.4", 1, TRUE)),
     Observed(2, DNSRecord("AAAA", HostApp, "2001:db8::1", 1, FALSE)) >>

InitPeriodic ==
  /\ ipService = IPState(NULL, 0, NULL, 0)
  /\ now = StartTime
  /\ containers \in {[web |-> LabelsAThenAAAA, api |-> l] :
                       l \in {LabelsApi, LabelsExplicit}}
  /\ useTraefikLabels = FALSE
  /\ zone = ZonePeriodic
  /\ queue = <<>>
  /\ inProgress = <<>>
  /\ draining = FALSE
  /\ passLeft = 0
  /\ nextTaskId = 1
  /\ finished = <<>>
  /\ tries = [i \in {} |-> 0]
  /\ pass = [snapshot |-> <<>>, attempted |-> <<>>]
  /\ call = NoCall
  /\ ops = 0
  /\ lastKnownIPv4 = NULL
  /\ lastKnownIPv6 = NULL
  /\ ipCheckInterval = TRUE
  /\ check = NoCheck
  /\ event = NoEvent
  /\ handlers = <<>>
  /\ exited = FALSE

NextPeriodic ==
  \/ Tick
  \/ IPCheckTick(NetPeriodic, {"", "A", "AAAA"}, {"", "web", "api"}, 0..2)

SpecPeriodic == InitPeriodic /\ [][NextPeriodic]_vars

(***************************************************************************)
(* DockerService (src/unnamed/part_001) and the listeners that             *)
(* Application.start registers on it (src/src/app.ts).                     *)
(***************************************************************************)
\* The actions for which the container is not inspected.
isGoneMutant(action) == action = "destroy"
isGone(action) == action \in {"destroy", "die", "kill", "stop"}

\* DockerService.extractDNSLabels returns the labels under the prefix, or
\* null when there is none.
hasDNSLabels(labels) == \E i \in 1..Len(labels) : HasDNSPrefix(labels[i][1])

\* The events of DockerService the application listens to when monitoring
\* starts: Application.start registers the listener before it calls
\* startMonitoring.
SubscribedMutant == {}
Subscribed == {"dns-update"}

\* The listener catches the rejection of handleServiceUpdate and logs it:
\* the rejection does not end the process.
rejectionExitsMutant(threw) == threw
rejectionExits(threw) == FALSE

\* scanExistingContainers: a dns-update event for every listed container
\* that has labels under the prefix; the listener starts handleServiceUpdate
\* for each (here they run one after the other, in the order of the
\* events) and logs its rejection.
RECURSIVE ScanContainers(_, _, _)
ScanContainers(acc, env, running) ==
  IF running = <<>> THEN acc
  ELSE IF ~hasDNSLabels(env.containers[Head(running)])
    THEN ScanContainers(acc, env, Tail(running))
  ELSE LET e == Head(running)
           st == IF "dns-update" \in Subscribed
                   THEN HandleLabels(Start(acc.st.ip, acc.st.nextId),
                                     [env EXCEPT !.serviceName = e],
                                     validateServiceLabels(env.containers[e],
                                                           env.useTraefik).records)
                   ELSE Start(acc.st.ip, acc.st.nextId)
       IN  ScanContainers([st |-> st, tasks |-> acc.tasks \o st.tasks,
                           emitted |-> Append(acc.emitted, e)],
                          env, Tail(running))

\* DockerService.startMonitoring(): the scan of the running containers,
\* then the subscription to Docker's events.
StartMonitoring(nets) ==
  /\ ~event.ran
  /\ \E net \in nets :
       \E r \in {ScanContainers(
                   [st |-> Start(ipService, nextTaskId), tasks |-> <<>>,
                    emitted |-> <<>>],
                   [t |-> now, net |-> net, zone |-> zone, failAt |-> 0,
                    serviceName |-> "", containers |-> containers,
                    useTraefik |-> useTraefikLabels],
                   SelectSeq(ListOrder, InFleet))} :
         /\ ipService' = r.st.ip
         /\ queue' = addTasks(queue, r.tasks)
         /\ nextTaskId' = r.st.nextId
         /\ tries' = [i \in DOMAIN tries \cup {t.id : t \in Range(r.tasks)}
                        |-> IF i \in DOMAIN tries THEN tries[i] ELSE 0]
         /\ call' = IF r.emitted = <<>> \/ "dns-update" \notin Subscribed THEN call
                    ELSE Call("handleServiceUpdate", r.emitted[Len(r.emitted)],
                              r.st, now, draining)
         /\ event' = DockerTrace("scan", "", 0,
                                 [i \in 1..Len(r.emitted) |-> "dns-update"],
                                 r.emitted # <<>> /\ "dns-update" \in Subscribed)
  /\ UNCHANGED <<lastKnownIPv4, lastKnownIPv6, ipCheckInterval, check, handlers, exited>>
  /\ UNCHANGED <<now, containers, useTraefikLabels, zone, inProgress,
                 draining, passLeft, finished, pass, ops>>

\* DockerService.handleContainerEvent(event) with the listener of the event
\* it emits.  A container that is gone is not inspected and dns-remove is
\* emitted; otherwise the container is inspected (404 when it no longer
\* exists) and dns-update is emitted when it has labels under the prefix.
HandleContainerEvent(e, action, nets, faults) ==
  /\ event.ran
  /\ ops < MaxOps
  /\ IF isGone(action)
       THEN /\ event' = DockerTrace(action, e, 0, <<"dns-remove">>,
                                    "dns-remove" \in Subscribed)
            /\ UNCHANGED <<ipService, queue, nextTaskId, tries, call, exited>>
     ELSE IF ~InFleet(e) \/ ~hasDNSLabels(containers[e])
       THEN /\ event' = DockerTrace(action, e, 1, <<>>, FALSE)
            /\ UNCHANGED <<ipService, queue, nextTaskId, tries, call, exited>>
     ELSE IF "dns-update" \notin Subscribed
       THEN /\ event' = DockerTrace(action, e, 1, <<"dns-update">>, FALSE)
            /\ UNCHANGED <<ipService, queue, nextTaskId, tries, call, exited>>
     ELSE \E net \in nets, fault \in faults :
            \E st \in {HandleResult(e, net, fault)} :
              /\ Len(queue) + Len(inProgress) + Len(st.tasks) <= MaxQueue
              /\ ipService' = st.ip
              /\ queue' = addTasks(queue, st.tasks)
              /\ nextTaskId' = st.nextId
              /\ tries' = [i \in DOMAIN tries \cup {t.id : t \in Range(st.tasks)}
                             |-> IF i \in DOMAIN tries THEN tries[i] ELSE 0]
              /\ call' = Call("handleServiceUpdate", e, st, now, draining)
              /\ event' = DockerTrace(action, e, 1, <<"dns-update">>, TRUE)
              /\ exited' = rejectionExits(st.threw)
  /\ ops' = ops + 1
  /\ UNCHANGED <<lastKnownIPv4, lastKnownIPv6, ipCheckInterval, check, handlers>>
  /\ UNCHANGED <<now, containers, useTraefikLabels, zone, inProgress,
                 draining, passLeft, finished, pass>>

\* A container routed by Traefik, without and with a label under the prefix.
LabelsTraefikOnly ==
  << <<KeyTraefikEnable, "true">>,
     <<KeyRule("app"), << [m |-> "Host", v |-> HostApp] >> >> >>
LabelsTraefikProxied == Append(LabelsTraefikOnly, <<KeyProxied, "false">>)

\* The application starting with Traefik integration enabled and one
\* container running.
InitDocker ==
  /\ ipService = IPState(NULL, 0, NULL, 0)
  /\ now = StartTime
  /\ containers \in [{"web"} -> {LabelsA, LabelsTraefikOnly, LabelsTraefikProxied}]
                     \cup {[web |-> LabelsA, api |-> LabelsApi]}
  /\ useTraefikLabels = TRUE
  /\ zone \in ZoneChoices
  /\ queue = <<>>
  /\ inProgress = <<>>
  /\ draining = FALSE
  /\ passLeft = 0
  /\ nextTaskId = 1
  /\ finished = <<>>
  /\ tries = [i \in {} |-> 0]
  /\ pass = [snapshot |-> <<>>, attempted |-> <<>>]
  /\ call = NoCall
  /\ ops = 0
  /\ lastKnownIPv4 = NULL
  /\ lastKnownIPv6 = NULL
  /\ ipCheckInterval = FALSE
  /\ check = NoCheck
  /\ event = NoEvent
  /\ handlers = <<>>
  /\ exited = FALSE

\* Application.startIPMonitoring(), called by start() once startMonitoring
\* has returned: the timer of the periodic address check is set.
StartIPMonitoring ==
  /\ event.ran
  /\ ~ipCheckInterval
  /\ ~check.ran
  /\ ipCheckInterval' = TRUE
  /\ UNCHANGED <<lastKnownIPv4, lastKnownIPv6, check, event, handlers, exited>>
  /\ UNCHANGED <<ipService, now, containers, useTraefikLabels, zone, queue,
                 inProgress, draining, passLeft, nextTaskId, finished, tries,
                 pass, call, ops>>

\* Application.shutdown(), on SIGTERM or SIGINT (the signal handlers are
\* registered after the timer is set): clearInterval, then process.exit(0).
clearIntervalMutant(timer) == timer
clearInterval(timer) == FALSE

Shutdown ==
  /\ ipCheckInterval
  /\ ipCheckInterval' = clearInterval(ipCheckInterval)
  /\ exited' = TRUE
  /\ UNCHANGED <<lastKnownIPv4, lastKnownIPv6, check, event, handlers>>
  /\ UNCHANGED <<ipService, now, containers, useTraefikLabels, zone, queue,
                 inProgress, draining, passLeft, nextTaskId, finished, tries,
                 pass, call, ops>>

\* The address sources while the application runs: the primary IPv4 source
\* answers or not, and the network has no IPv6.
NetStart ==
  {n \in NetPeriodic : n.cf4 \in {"1.2.3.4", ETIMEDOUT} /\ n.cf6 = ENETUNREACH}

\* The application from start() to shutdown().  The events DockerService
\* asks Docker for are create, start, stop, destroy, die and kill.  Nothing
\* runs once the process has exited.
NextDocker ==
  \/ /\ ~exited
     /\ \/ StartMonitoring(NetStart)
        \/ \E e \in Entities, action \in {"create", "start", "stop", "destroy", "die", "kill"} : HandleContainerEvent(e, action, NetStart, -1..1)
        \/ StartIPMonitoring
        \/ IPCheckTick(NetUp, {""}, {""}, {0})
        \/ ProcessTasks
        \/ TakeTask
        \/ FinishTask({TRUE})
        \/ Shutdown

SpecDocker == InitDocker /\ [][NextDocker]_vars

(***************************************************************************)
(* The dns-update listener of Application.start: each event calls          *)
(* handleServiceUpdate and does not wait for it, so a call runs up to its  *)
(* next await while other calls and the task worker go on.  A call in      *)
(* flight holds the records it has not handled yet, its trace, the tasks   *)
(* it added and the number of provider reads it made.                      *)
(***************************************************************************)
\* A dns-update event for the container: the call inspects the container,
\* parses its labels and reaches the await of its first record.
BeginUpdate(e) ==
  /\ ops < MaxOps
  /\ InFleet(e)
  /\ LET records == validateServiceLabels(containers[e], useTraefikLabels).records
     IN  IF records = <<>>
           THEN /\ call' = Call("handleServiceUpdate", e,
                                Start(ipService, nextTaskId), now, draining)
                /\ handlers' = handlers
           ELSE /\ call' = call
                /\ handlers' = Append(handlers,
                                      [entity |-> e, todo |-> records,
                                       log |-> <<>>, tasks |-> <<>>,
                                       gets |-> 0, t |-> now])
  /\ ops' = ops + 1
  /\ UNCHANGED <<lastKnownIPv4, lastKnownIPv6, ipCheckInterval, check, event, exited>>
  /\ UNCHANGED <<ipService, now, containers, useTraefikLabels, zone, queue,
                 inProgress, draining, passLeft, nextTaskId, finished, tries,
                 pass>>

\* A call in flight handles its next record: resolve, read the provider,
\* add the task; it returns after its last record or when it throws.
StepUpdate(nets, faults) ==
  \E i \in 1..Len(handlers), net \in nets, fault \in faults :
    LET h == handlers[i]
        env == [t |-> now, net |-> net, zone |-> zone,
                failAt |-> IF fault = 0 THEN 0 ELSE h.gets + 1,
                serviceName |-> h.entity]
        st == HandleLabel([Start(ipService, nextTaskId) EXCEPT !.gets = h.gets],
                          env, Head(h.todo))
        all == [st EXCEPT !.log = h.log \o st.log, !.tasks = h.tasks \o st.tasks]
    IN  /\ Len(queue) + Len(inProgress) + Len(st.tasks) <= MaxQueue
        /\ ipService' = st.ip
        /\ queue' = addTasks(queue, st.tasks)
        /\ nextTaskId' = st.nextId
        /\ tries' = [k \in DOMAIN tries \cup {t.id : t \in Range(st.tasks)}
                       |-> IF k \in DOMAIN tries THEN tries[k] ELSE 0]
        /\ IF st.threw \/ Len(h.todo) = 1
             THEN /\ handlers' = Without(handlers, i)
                  /\ call' = Call("handleServiceUpdate", h.entity, all, h.t,
                                  draining)
             ELSE /\ handlers' = [handlers EXCEPT ![i] =
                                    [h EXCEPT !.todo = Tail(@), !.log = all.log,
                                              !.tasks = all.tasks,
                                              !.gets = st.gets]]
                  /\ call' = call
        /\ UNCHANGED <<lastKnownIPv4, lastKnownIPv6, ipCheckInterval, check, event, exited>>
        /\ UNCHANGED <<now, containers, useTraefikLabels, zone, inProgress,
                       draining, passLeft, finished, pass, ops>>

\* Two containers with DNS labels, whose events arrive as they come.
InitInterleave ==
  /\ ipService = IPState(NULL, 0, NULL, 0)
  /\ now = StartTime
  /\ containers \in {[web |-> l, api |-> LabelsApi] : l \in {LabelsA, LabelsAThenAAAA}}
  /\ useTraefikLabels = FALSE
  /\ zone \in ZoneChoices
  /\ queue = <<>>
  /\ inProgress = <<>>
  /\ draining = FALSE
  /\ passLeft = 0
  /\ nextTaskId = 1
  /\ finished = <<>>
  /\ tries = [i \in {} |-> 0]
  /\ pass = [snapshot |-> <<>>, attempted |-> <<>>]
  /\ call = NoCall
  /\ ops = 0
  /\ lastKnownIPv4 = NULL
  /\ lastKnownIPv6 = NULL
  /\ ipCheckInterval = FALSE
  /\ check = NoCheck
  /\ event = NoEvent
  /\ handlers = <<>>
  /\ exited = FALSE

NextInterleave ==
  \/ \E e \in Entities : BeginUpdate(e)
  \/ StepUpdate(NetUp, 0..1)
  \/ ProcessTasks
  \/ TakeTask
  \/ FinishTask({TRUE})

SpecInterleave == InitInterleave /\ [][NextInterleave]_vars

(***************************************************************************)
(* The entity-event handler on its own, for containers that declare        *)
(* records of every type, under the answers of the primary address sources *)
(* and the failures of the provider's reads.                               *)
(***************************************************************************)
\* A CNAME whose content is the sentinel, after an A record.
LabelsCNAMESentinel ==
  << <<K(<<"hostname">>), HostApp>>,
     <<K(<<"alias", "hostname">>), HostApi>>, <<K(<<"alias", "type">>), "CNAME">>,
     <<K(<<"alias", "content">>), "public_ip">> >>
\* A TXT record without content and an MX record with an empty one.
LabelsTXTAndMX ==
  << <<K(<<"txt", "hostname">>), HostApp>>, <<K(<<"txt", "type">>), "TXT">>,
     <<K(<<"mx", "hostname">>), HostApp>>, <<K(<<"mx", "type">>), "mx">>,
     <<K(<<"mx", "content">>), "">> >>
\* Two groups that declare the same hostname and type, with two contents.
LabelsSameIdentity ==
  << <<K(<<"hostname">>), HostApp>>, <<K(<<"content">>), "1.2.3.4">>,
     <<K(<<"dup", "hostname">>), HostApp>>, <<K(<<"dup", "content">>), "5.6.7.8">> >>

HandlerLabels ==
  LabelChoices \cup {LabelsCNAMESentinel, LabelsTXTAndMX, LabelsSameIdentity}

InitHandler ==
  /\ ipService = IPState(NULL, 0, NULL, 0)
  /\ now = StartTime
  /\ containers \in [{"web"} -> HandlerLabels]
  /\ useTraefikLabels = FALSE
  /\ zone \in ZoneChoices
  /\ queue = <<>>
  /\ inProgress = <<>>
  /\ draining = FALSE
  /\ passLeft = 0
  /\ nextTaskId = 1
  /\ finished = <<>>
  /\ tries = [i \in {} |-> 0]
  /\ pass = [snapshot |-> <<>>, attempted |-> <<>>]
  /\ call = NoCall
  /\ ops = 0
  /\ lastKnownIPv4 = NULL
  /\ lastKnownIPv6 = NULL
  /\ ipCheckInterval = FALSE
  /\ check = NoCheck
  /\ event = NoEvent
  /\ handlers = <<>>
  /\ exited = FALSE

\* The address sources answer as in the periodic check, or the primary one
\* fails and both fallback providers answer with an empty body.
NextHandler ==
  \E e \in Entities :
    HandleServiceUpdate(e, NetPeriodic \cup {Net(ETIMEDOUT, "", "", ENETUNREACH)}, 0..2)

SpecHandler == InitHandler /\ [][NextHandler]_vars

(***************************************************************************)
(* The label parser on its own: one container whose labels are drawn from  *)
(* the maps below, parsed with and without routing-rule inference.         *)
(***************************************************************************)
\* A label when the value is given, none when it is UNDEF.
Opt(key, value) == IF value = UNDEF THEN <<>> ELSE << <<key, value>> >>

\* The rules of two routers: two hosts OR-joined, one of them again in the
\* second router; or a rule that names no host.
RuleTwoHosts == << [m |-> "Host", v |-> "a.x.com"], [m |-> "Host", v |-> "b.x.com"] >>
RuleOneHost == << [m |-> "PathPrefix", v |-> "/api"], [m |-> "Host", v |-> "a.x.com"] >>
RuleNoHost == << [m |-> "PathPrefix", v |-> "/api"] >>

TraefikChoices ==
  { <<>>,
    << <<KeyTraefikEnable, "true">>, <<KeyRule("web"), RuleTwoHosts>>,
       <<KeyRule("alt"), RuleOneHost>> >>,
    << <<KeyTraefikEnable, "true">>, <<KeyRule("web"), RuleNoHost>> >>,
    << <<KeyTraefikEnable, "false">>, <<KeyRule("web"), RuleTwoHosts>> >> }

\* The default keys, a group "b" written group-first and a group "v6"
\* written property-first.
ParserInputs ==
  { tr \o Opt(KeyHostname, h) \o Opt(KeyType, t) \o Opt(KeyContent, c)
       \o Opt(KeyProxied, p)
       \o Opt(K(<<"b", "hostname">>), hb) \o Opt(K(<<"b", "type">>), tb)
       \o Opt(K(<<"hostname", "v6">>), hv) \o Opt(K(<<"content", "v6">>), cv) :
      tr \in TraefikChoices,
      h \in {UNDEF, "", HostApp},
      t \in {UNDEF, "aaaa", "CNAME"},
      c \in {UNDEF, "not-an-ip", "2001:db8::1"},
      p \in {UNDEF, "false"},
      hb \in {UNDEF, "", HostApi},
      tb \in {UNDEF, "A"},
      hv \in {UNDEF, HostApp},
      cv \in {UNDEF, "origin.x.com"} }

\* A default group with every property and a named group "b" with its own
\* type, proxied and ttl, with or without router rules.
KeyTTL == K(<<"ttl">>)
DefaultingInputs ==
  { tr \o << <<KeyHostname, HostApp>> >> \o Opt(KeyType, t)
       \o Opt(KeyContent, c) \o Opt(KeyProxied, p) \o Opt(KeyTTL, ttl)
       \o << <<K(<<"b", "hostname">>), HostApi>> >>
       \o Opt(K(<<"type", "b">>), tb) \o Opt(K(<<"b", "proxied">>), pb)
       \o Opt(K(<<"ttl", "b">>), ttlb) :
      tr \in {<<>>, << <<KeyTraefikEnable, "true">>, <<KeyRule("web"), RuleTwoHosts>> >>},
      t \in {UNDEF, "a", "aaaa", "CNAME", "txt", "srv"},
      c \in {UNDEF, "2001:db8::1"},
      p \in {UNDEF, "true", "false"},
      ttl \in {UNDEF, "300", "0", "-5", "60s", "auto"},
      tb \in {UNDEF, "AAAA"},
      pb \in {UNDEF, "true"},
      ttlb \in {UNDEF, "3600"} }

\* LabelValidator.validateServiceLabels(e, labels), called on its own; the
\* trace has one entry for each record returned.
ValidateServiceLabels(e) ==
  /\ e \in DOMAIN containers
  /\ LET r == validateServiceLabels(containers[e], useTraefikLabels)
     IN  call' = Call("validateServiceLabels", e,
                      [Start(ipService, nextTaskId) EXCEPT
                         !.log = [i \in 1..Len(r.records) |->
                                    Entry(r.records[i], "parsed", NoResolve,
                                          <<>>, <<>>, <<>>)]],
                      now, draining)
  /\ UNCHANGED monitorVars
  /\ UNCHANGED <<ipService, now, containers, useTraefikLabels, zone, queue,
                 inProgress, draining, passLeft, nextTaskId, finished, tries,
                 pass, ops>>

InitParser ==
  /\ ipService = IPState(NULL, 0, NULL, 0)
  /\ now = StartTime
  /\ containers \in [{"web"} -> ParserInputs \cup DefaultingInputs]
  /\ useTraefikLabels \in BOOLEAN
  /\ zone = <<>>
  /\ queue = <<>>
  /\ inProgress = <<>>
  /\ draining = FALSE
  /\ passLeft = 0
  /\ nextTaskId = 1
  /\ finished = <<>>
  /\ tries = [i \in {} |-> 0]
  /\ pass = [snapshot |-> <<>>, attempted |-> <<>>]
  /\ call = NoCall
  /\ ops = 0
  /\ lastKnownIPv4 = NULL
  /\ lastKnownIPv6 = NULL
  /\ ipCheckInterval = FALSE
  /\ check = NoCheck
  /\ event = NoEvent
  /\ handlers = <<>>
  /\ exited = FALSE

NextParser == \E e \in Entities : ValidateServiceLabels(e)

SpecParser == InitParser /\ [][NextParser]_vars

(***************************************************************************)
(* Properties.                                                             *)
(***************************************************************************)
IsEvent == call.op = "handleServiceUpdate"

\* The records the parser returns for the container of the last call.
Declared == validateServiceLabels(containers[call.entity], useTraefikLabels).records

\* The observed record holds the content, ttl and proxied of the desired one.
SameFields(existing, record) ==
  /\ existing.content = record.content
  /\ existing.ttl = record.ttl
  /\ existing.proxied = record.proxied

\* The tasks the log's entries carry, in order.
RECURSIVE LoggedTasks(_)
LoggedTasks(log) ==
  IF log = <<>> THEN <<>> ELSE Head(log).task \o LoggedTasks(Tail(log))

\* C1: when the provider already holds, for every record an entity event
\* derives, a record with the same content, ttl and proxied, the event
\* enqueues no task (so a second pass after the first pass's tasks were
\* applied enqueues nothing).
C1_Idempotent ==
  (/\ IsEvent
   /\ \A i \in 1..Len(call.log) :
        /\ call.log[i].record # <<>>
        /\ call.log[i].existing # <<>>
        /\ SameFields(call.log[i].existing[1], call.log[i].record[1]))
  => call.tasks = <<>>

\* A second pass found what a completed CREATE task of the first wrote.
C1_Witness ==
  /\ IsEvent
  /\ ~call.threw
  /\ call.log # <<>>
  /\ call.tasks = <<>>
  /\ \A i \in 1..Len(call.log) :
       /\ call.log[i].step = "upToDate"
       /\ \E k \in 1..Len(finished) :
            /\ finished[k].status = "COMPLETED"
            /\ finished[k].type = "CREATE"
            /\ finished[k].data.serviceName = call.entity
            /\ finished[k].data.name = call.log[i].record[1].name
            /\ finished[k].data.recordType = call.log[i].record[1].type
            /\ finished[k].data.content = call.log[i].existing[1].content
            /\ finished[k].data.ttl = call.log[i].existing[1].ttl
            /\ finished[k].data.proxied = call.log[i].existing[1].proxied

\* C2: for every desired record whose observed record was read: absent,
\* exactly one CREATE task; present and differing in content, ttl or
\* proxied, exactly one UPDATE task with the observed record's id; present
\* and equal in all three, no task.  The tasks enqueued are these, in order.
C2_DiffRule ==
  IsEvent =>
    /\ call.tasks = LoggedTasks(call.log)
    /\ \A i \in 1..Len(call.log) :
         LET en == call.log[i]
         IN  en.step \in {"upToDate", "queued"} =>
               /\ en.existing # <<>> =>
                    /\ en.existing[1].name = en.record[1].name
                    /\ en.existing[1].type = en.record[1].type
               /\ en.existing = <<>> =>
                    /\ Len(en.task) = 1
                    /\ en.task[1].type = "CREATE"
               /\ (en.existing # <<>>
                   /\ ~SameFields(en.existing[1], en.record[1])) =>
                    /\ Len(en.task) = 1
                    /\ en.task[1].type = "UPDATE"
                    /\ en.task[1].data.recordId = en.existing[1].id
               /\ (en.existing # <<>>
                   /\ SameFields(en.existing[1], en.record[1])) =>
                    en.task = <<>>

\* An UPDATE caused by the ttl and proxied alone.
C2_Witness ==
  /\ IsEvent
  /\ \E i \in 1..Len(call.log) :
       /\ call.log[i].step = "queued"
       /\ call.log[i].existing # <<>>
       /\ call.log[i].existing[1].content = call.log[i].record[1].content
       /\ call.log[i].task[1].type = "UPDATE"
       /\ call.log[i].task[1].data.recordId = call.log[i].existing[1].id

\* Docker and the provider's reads answered during the last call.
NoFault ==
  /\ call.err # ErrInspect
  /\ \A i \in 1..Len(call.log) : call.log[i].step # "getFailed"

ResolveFailed(en) == en.res.called /\ ~en.res.ok

\* C3: in an entity event where the resolver failed for an AAAA record and
\* for no record of another type (and Docker and the provider answered),
\* the call returns normally, every declared record was processed, the
\* records whose resolution failed are AAAA records and got no task, and
\* every other record was compared and its task, if any, enqueued.
C3_AAAAFailureSkipsOnlyThatRecord ==
  (/\ IsEvent
   /\ NoFault
   /\ \E i \in 1..Len(call.log) :
        ResolveFailed(call.log[i]) /\ call.log[i].label.type = "AAAA"
   /\ \A i \in 1..Len(call.log) :
        ResolveFailed(call.log[i]) => call.log[i].label.type = "AAAA")
  => /\ ~call.threw
     /\ Len(call.log) = Len(Declared)
     /\ \A i \in 1..Len(call.log) :
          /\ call.log[i].label = Declared[i]
          /\ IF ResolveFailed(call.log[i])
               THEN call.log[i].step = "skipped" /\ call.log[i].task = <<>>
               ELSE /\ call.log[i].step \in {"upToDate", "queued"}
                    /\ call.log[i].step = "queued" =>
                         \E k \in 1..Len(call.tasks) :
                           call.tasks[k] = call.log[i].task[1]

\* The AAAA record is declared first and skipped; the A record after it is
\* created.
C3_Witness ==
  /\ IsEvent
  /\ ~call.threw
  /\ Len(call.log) = 2
  /\ call.log[1].label.type = "AAAA"
  /\ call.log[1].step = "skipped"
  /\ call.log[2].label.type = "A"
  /\ call.log[2].res.called /\ call.log[2].res.ok
  /\ Len(call.tasks) = 1
  /\ call.tasks[1].type = "CREATE"
  /\ call.tasks[1].data.recordType = "A"

\* C4: when the container declares only an A record whose content is the
\* public address and the resolver fails for it, the entity event fails
\* with the resolver's error and enqueues no task.
C4_AFailurePropagates ==
  (/\ IsEvent
   /\ NoFault
   /\ Len(Declared) = 1
   /\ Declared[1].type = "A"
   /\ IsSentinel(Declared[1].content)
   /\ Len(call.log) = 1
   /\ ResolveFailed(call.log[1]))
  => /\ call.threw
     /\ call.err = call.log[1].res.err
     /\ call.tasks = <<>>

C4_Witness ==
  /\ IsEvent
  /\ Len(Declared) = 1
  /\ Declared[1].type = "A"
  /\ Declared[1].content = UNDEF
  /\ Len(call.log) = 1
  /\ ResolveFailed(call.log[1])
  /\ call.log[1].res.cur = NULL
  /\ call.threw
  /\ call.tasks = <<>>
  /\ queue = <<>>

\* The resolutions of the last call: the log entries that called the
\* resolver.
Resolutions == {i \in 1..Len(call.log) : call.log[i].res.called}

\* C9: for each address family, when a cached value exists and was obtained
\* less than CACHE_DURATION ago, resolve returns it and issues no network
\* request; when the cached value is CACHE_DURATION old or older, resolve
\* issues a request to refresh it.
C9_CacheHit ==
  \A i \in Resolutions :
    LET res == call.log[i].res
    IN  /\ (Truthy(res.cur) /\ call.t - res.last < CACHE_DURATION) =>
              /\ res.ok
              /\ res.val = res.cur
              /\ res.calls = <<>>
              /\ res.curAfter = res.cur
              /\ res.lastAfter = res.last
        /\ (Truthy(res.cur) /\ call.t - res.last >= CACHE_DURATION) =>
              res.calls # <<>>

\* A value cached some time ago, but less than the window, is served.
C9_Witness ==
  /\ call.op = "getPublicIP"
  /\ \E i \in Resolutions :
       /\ Truthy(call.log[i].res.cur)
       /\ call.t - call.log[i].res.last > 0
       /\ call.t - call.log[i].res.last < CACHE_DURATION
       /\ call.log[i].res.val = call.log[i].res.cur
       /\ call.log[i].res.calls = <<>>

\* The requests of a resolution show a failed refresh: the primary source
\* failed and, for IPv4, a fallback provider failed or the two disagreed.
RefreshFailed(type, res) ==
  /\ res.answers # <<>>
  /\ res.answers[1] \in NetErrors
  /\ type # "AAAA" =>
       /\ Len(res.answers) = 3
       /\ \/ res.answers[2] \in NetErrors
          \/ res.answers[3] \in NetErrors
          \/ res.answers[2] # res.answers[3]

\* C10: when a refresh fails after the fallback providers were tried, a
\* cached value of the family, however old, is returned and the cached value
\* and its timestamp stay as they were; with no cached value the call fails
\* with the refresh's error.
C10_StaleFallback ==
  \A i \in Resolutions :
    LET res == call.log[i].res
    IN  RefreshFailed(call.log[i].label.type, res) =>
          /\ res.curAfter = res.cur
          /\ res.lastAfter = res.last
          /\ IF Truthy(res.cur)
               THEN res.ok /\ res.val = res.cur
               ELSE ~res.ok /\ res.err # ""

\* A stale value is served after a failed refresh.
C10_Witness ==
  /\ call.op = "getPublicIP"
  /\ ~call.threw
  /\ \E i \in Resolutions :
       /\ RefreshFailed(call.log[i].label.type, call.log[i].res)
       /\ Truthy(call.log[i].res.cur)
       /\ call.t - call.log[i].res.last >= CACHE_DURATION
       /\ call.log[i].res.val = call.log[i].res.cur

\* Every task the worker knows: queued, in flight, or done.
AllTasks == Range(queue) \cup Range(inProgress) \cup Range(finished)

\* C5: every task is created with attempts 0 and maxAttempts 3; a task is
\* FAILED exactly when its provider call has failed 3 times out of 3, it is
\* then in the queue no more, and no task is ever attempted more than 3
\* times or has attempts above maxAttempts.
C5_RetryBound ==
  /\ \A i \in 1..Len(call.tasks) :
       /\ call.tasks[i].attempts = 0
       /\ call.tasks[i].maxAttempts = 3
       /\ call.tasks[i].status = "PENDING"
  /\ \A t \in AllTasks :
       /\ t.maxAttempts = 3
       /\ t.attempts >= 0
       /\ t.attempts <= t.maxAttempts
       /\ tries[t.id] <= 3
  /\ \A t \in Range(queue) \cup Range(inProgress) :
       /\ t.attempts < t.maxAttempts
       /\ t.attempts = tries[t.id]
       /\ t.status # "FAILED"
  /\ \A t \in Range(finished) :
       /\ t.status = "FAILED" <=> t.attempts = 3
       /\ t.status = "FAILED" => tries[t.id] = 3
       /\ t.status = "COMPLETED" => tries[t.id] = t.attempts + 1
       /\ \A u \in Range(queue) \cup Range(inProgress) : u.id # t.id

\* A task failed three times and is FAILED, out of the queue.
C5_Witness ==
  \E k \in 1..Len(finished) :
    /\ finished[k].status = "FAILED"
    /\ finished[k].attempts = 3
    /\ tries[finished[k].id] = 3
    /\ \A i \in 1..Len(queue) : queue[i].id # finished[k].id

\* C6: a drain pass ends only when every task that was queued when it
\* started has been attempted in it, whatever the outcome of each provider
\* call.
C6_FailureIsolation ==
  /\ ~draining => pass.attempted = pass.snapshot
  /\ ~draining => \A i \in 1..Len(pass.snapshot) : tries[pass.snapshot[i]] >= 1
  /\ draining => Len(pass.attempted) + passLeft = Len(pass.snapshot)

\* A pass over two tasks is over: the first failed and went back to the
\* queue, the second was attempted and completed.
C6_Witness ==
  /\ ~draining
  /\ Len(pass.snapshot) >= 2
  /\ pass.attempted = pass.snapshot
  /\ \E i \in 1..Len(queue) :
       /\ queue[i].id = pass.snapshot[1]
       /\ queue[i].attempts >= 1
  /\ \E k \in 1..Len(finished) :
       /\ finished[k].id = pass.snapshot[2]
       /\ finished[k].status = "COMPLETED"

\* C7: at most one task is IN_PROGRESS at any time, and a pass takes the
\* tasks in the order of the queue when it started: what it has attempted,
\* followed by what it has still to take from the head of the queue, is that
\* order.
C7_SequentialFIFO ==
  /\ Cardinality({i \in 1..Len(inProgress) :
                    inProgress[i].status = "IN_PROGRESS"}) <= 1
  /\ Len(inProgress) <= 1
  /\ \A i \in 1..Len(queue) : queue[i].status = "PENDING"
  /\ Len(pass.attempted) <= Len(pass.snapshot)
  /\ pass.attempted = SubSeq(pass.snapshot, 1, Len(pass.attempted))
  /\ draining =>
       /\ passLeft <= Len(queue)
       /\ pass.attempted \o Ids(SubSeq(queue, 1, passLeft)) = pass.snapshot

\* The second task of a pass is in flight after the first one was done.
C7_Witness ==
  /\ draining
  /\ Len(pass.snapshot) >= 2
  /\ Len(pass.attempted) = 2
  /\ Len(inProgress) = 1
  /\ inProgress[1].id = pass.snapshot[2]
  /\ inProgress[1].status = "IN_PROGRESS"
  /\ tries[pass.snapshot[1]] >= 1

\* Every task ever enqueued is in exactly one place: queued, in flight, or
\* done with status COMPLETED or FAILED.
Accounted ==
  /\ \A id \in 1..(nextTaskId - 1) :
       Cardinality({i \in 1..Len(queue) : queue[i].id = id})
         + Cardinality({i \in 1..Len(inProgress) : inProgress[i].id = id})
         + Cardinality({i \in 1..Len(finished) : finished[i].id = id}) = 1
  /\ \A t \in Range(finished) : t.status \in {"COMPLETED", "FAILED"}
  /\ \A t \in Range(queue) : t.status = "PENDING"

\* A pass that starts covers every task in the queue at that moment.
NextPassTakesAll == (~draining /\ draining') => pass'.snapshot = Ids(queue')

\* C8: no enqueued task leaves the queue without having reached COMPLETED
\* or FAILED, and a task enqueued while a pass is running and not taken by
\* it is in the queue when the pass ends and is covered by the next pass.
C8_NoLostWork == []Accounted /\ [][NextPassTakesAll]_vars

\* A task enqueued during a pass was attempted by a later pass and is done.
C8_Witness ==
  /\ call.duringPass
  /\ call.tasks # <<>>
  /\ \E i \in 1..Len(call.tasks), k \in 1..Len(finished) :
       /\ finished[k].id = call.tasks[i].id
       /\ \E j \in 1..Len(pass.attempted) :
            pass.attempted[j] = call.tasks[i].id

\* The primary IPv4 source failed and the two fallback providers answered
\* with different addresses.
Disagreement(type, res) ==
  /\ type # "AAAA"
  /\ Len(res.answers) = 3
  /\ res.answers[1] \in NetErrors
  /\ res.answers[2] \notin NetErrors
  /\ res.answers[3] \notin NetErrors
  /\ res.answers[2] # res.answers[3]

\* C11: a resolve(A) call whose primary source failed and whose fallback
\* providers answered with different addresses fails with the
\* sources-disagree error and returns no value.
C11_DisagreementIsFatal ==
  \A i \in Resolutions :
    Disagreement(call.log[i].label.type, call.log[i].res) =>
      ~call.log[i].res.ok /\ call.log[i].res.err = ErrMismatch

\* A disagreement with a value cached earlier: the call returns the cached
\* value instead of failing.
C11_Witness ==
  /\ call.op = "getPublicIP"
  /\ ~call.threw
  /\ \E i \in Resolutions :
       /\ Disagreement(call.log[i].label.type, call.log[i].res)
       /\ Truthy(call.log[i].res.cur)
       /\ call.log[i].res.ok
       /\ call.log[i].res.val = call.log[i].res.cur

\* A step of getPublicIP(type) leaves the other family's fields alone.
OtherFamilyUnchanged ==
  (now' = now /\ call'.op = "getPublicIP") =>
    IF call'.entity = "AAAA"
      THEN /\ ipService'.currentIPv4 = ipService.currentIPv4
           /\ ipService'.lastCheckIPv4 = ipService.lastCheckIPv4
      ELSE /\ ipService'.currentIPv6 = ipService.currentIPv6
           /\ ipService'.lastCheckIPv6 = ipService.lastCheckIPv6

\* C12: a resolve call for one address family, whether it succeeds or
\* fails, leaves the other family's cached value and timestamp unchanged.
C12_CacheIndependence == [][OtherFamilyUnchanged]_vars

\* An IPv6 refresh succeeded at a later time than the IPv4 value was cached,
\* and the IPv4 value and timestamp are still the older ones.
C12_Witness ==
  /\ call.op = "getPublicIP"
  /\ call.entity = "AAAA"
  /\ \E i \in Resolutions :
       /\ call.log[i].res.calls # <<>>
       /\ call.log[i].res.ok
       /\ call.log[i].res.lastAfter = call.t
  /\ Truthy(ipService.currentIPv4)
  /\ ipService.lastCheckIPv4 < ipService.lastCheckIPv6

\* The periodic check: the resolution of a family, its last known address
\* before the check, and the visits of its re-check.
ResOf(type) == IF type = "AAAA" THEN check.res6 ELSE check.res4
KnownBefore(type) == IF type = "AAAA" THEN check.before.v6 ELSE check.before.v4
VisitsOf(type) == SelectSeq(check.visits, LAMBDA v : v.type = type)
Running == SelectSeq(ListOrder, InFleet)

\* The check resolved the family's address and it is not the last known one.
Changed(type) ==
  /\ check.ran
  /\ ResOf(type).called
  /\ ResOf(type).ok
  /\ Truthy(KnownBefore(type))
  /\ ResOf(type).val # KnownBefore(type)

\* The records of a container that a re-check of the type is about.
SentinelRecords(e, type) ==
  SelectSeq(validateServiceLabels(containers[e], useTraefikLabels).records,
            LAMBDA l : l.type = type /\ IsSentinel(l.content))

\* A visit reconciled every such record of its container with the address.
Reconciled(v, type, address) ==
  /\ Len(v.log) = Len(SentinelRecords(v.entity, type))
  /\ \A i \in 1..Len(v.log) :
       LET en == v.log[i]
       IN  /\ en.label = SentinelRecords(v.entity, type)[i]
           /\ en.step \in {"upToDate", "queued"}
           /\ en.record[1].content = address
           /\ en.record[1].name = en.label.hostname
           /\ en.record[1].type = type
           /\ (en.existing # <<>> /\ en.existing[1].content # address) =>
                /\ Len(en.task) = 1
                /\ en.task[1].type = "UPDATE"
                /\ en.task[1].data.content = address
                /\ en.task[1].data.recordId = en.existing[1].id
                /\ en.task[1].data.serviceName = v.entity
           /\ en.existing = <<>> =>
                /\ Len(en.task) = 1
                /\ en.task[1].type = "CREATE"
                /\ en.task[1].data.content = address
           /\ \A k \in 1..Len(en.task) :
                /\ \E j \in 1..Len(check.tasks) : check.tasks[j] = en.task[k]
                /\ \E j \in 1..Len(queue) : queue[j] = en.task[k]

ListFailed(type) ==
  \E i \in 1..Len(check.visits) :
    check.visits[i].type = type /\ check.visits[i].outcome = "listFailed"

C14_LastKnownUpdated ==
  check.ran =>
    /\ (check.res4.called /\ check.res4.ok) => lastKnownIPv4 = check.res4.val
    /\ (check.res6.called /\ check.res6.ok) => lastKnownIPv6 = check.res6.val

\* The address changed, listing the containers failed, and the last known
\* address is still the old one.
C14_Witness ==
  /\ Changed("A")
  /\ ListFailed("A")
  /\ check.threw
  /\ lastKnownIPv4 = check.before.v4
  /\ lastKnownIPv4 # check.res4.val

\* C15: when a periodic check fails to resolve the IPv6 address, the check
\* returns normally, the IPv4 half has taken place (the address resolved,
\* the fleet re-checked if it had changed, the last known IPv4 address
\* updated) and the last known IPv6 address is unchanged.
C15_IPv6FailureNotFatal ==
  (check.ran /\ check.res6.called /\ ~check.res6.ok) =>
    /\ ~check.threw
    /\ check.res4.called /\ check.res4.ok
    /\ lastKnownIPv4 = check.res4.val
    /\ Changed("A") =>
         /\ Len(VisitsOf("A")) = Len(Running)
         /\ \A i \in 1..Len(Running) : VisitsOf("A")[i].entity = Running[i]
    /\ lastKnownIPv6 = check.before.v6
    /\ VisitsOf("AAAA") = <<>>

\* The IPv6 source failed in a check that found a new IPv4 address and
\* re-checked the fleet with it.
C15_Witness ==
  /\ check.ran
  /\ check.res6.called /\ ~check.res6.ok
  /\ ~check.threw
  /\ Changed("A")
  /\ \A i \in 1..Len(VisitsOf("A")) : VisitsOf("A")[i].outcome = "done"
  /\ check.tasks # <<>>
  /\ lastKnownIPv4 = check.res4.val
  /\ lastKnownIPv4 # check.before.v4

\* C16: a periodic check that fails to resolve the IPv4 address fails with
\* the resolver's error, enqueues no task and leaves both last known
\* addresses as they were; the timer callback catches the error and the
\* timer stays set, so later ticks run the check again.
C16_IPv4FailureIsPerCycle ==
  /\ ipCheckInterval
  /\ (check.ran /\ check.res4.called /\ ~check.res4.ok) =>
       /\ check.threw
       /\ check.err = check.res4.err
       /\ check.tasks = <<>>
       /\ check.visits = <<>>
       /\ ~check.res6.called
       /\ lastKnownIPv4 = check.before.v4
       /\ lastKnownIPv6 = check.before.v6

\* A check ran to its end after an earlier check had failed to resolve the
\* IPv4 address.
C16_Witness ==
  /\ check.ran
  /\ check.failures >= 1
  /\ check.res4.ok
  /\ ~check.threw
  /\ lastKnownIPv4 = check.res4.val

\* A visit that failed: the inspection, or a read of the provider.
VisitFailed(v) == v.outcome \in {"inspectFailed", "failed"}

\* C17: when the inspection or the reconciliation of one running container
\* fails in a fleet re-check, the re-check still visits every running
\* container, reconciles those that Docker and the provider answer for, and
\* the periodic check does not fail.
C17_PerEntityIsolation ==
  \A type \in {"A", "AAAA"} :
    (check.ran /\ \E i \in 1..Len(VisitsOf(type)) :
                     VisitFailed(VisitsOf(type)[i]))
    => /\ ~check.threw
       /\ Len(VisitsOf(type)) = Len(Running)
       /\ \A i \in 1..Len(Running) :
            /\ VisitsOf(type)[i].entity = Running[i]
            /\ VisitsOf(type)[i].outcome = "done" =>
                 Reconciled(VisitsOf(type)[i], type, ResOf(type).val)

\* The first container's reconciliation failed and the second container's
\* record was still created.
C17_Witness ==
  /\ check.ran
  /\ ~check.threw
  /\ Len(VisitsOf("A")) = 2
  /\ VisitFailed(VisitsOf("A")[1])
  /\ VisitsOf("A")[2].outcome = "done"
  /\ \E j \in 1..Len(queue) :
       /\ queue[j].data.serviceName = VisitsOf("A")[2].entity
       /\ queue[j].data.content = check.res4.val

(***************************************************************************)
(* The parser's claims, on the calls of validateServiceLabels.             *)
(***************************************************************************)
IsParse == call.op = "validateServiceLabels"
\* The records the last parse returned.
Parsed == [i \in 1..Len(call.log) |-> call.log[i].label]
\* The label map of the parsed container as the grouping reads it, and
\* whether the records came from the router rules instead.
Grouped(e) == extractDNSLabels(containers[e], useTraefikLabels).labels
FromRules(e) ==
  /\ useTraefikLabels
  /\ Lookup(containers[e], KeyTraefikEnable) = "true"
  /\ extractTraefikLabels(containers[e]) # <<>>
\* The merged properties of each group of a label map.
Merged(ls) ==
  [i \in 1..Len(Groups(ls)) |->
     [id |-> Groups(ls)[i].id,
      props |-> WithDefaults(Groups(ls)[i].props, DefaultValues(ls))]]
HasHostname(g) == Truthy(Get(g.props, "hostname"))

\* C18: every record the parser returns has a non-empty hostname, and a
\* group whose merged properties have no hostname, or an empty one, gives
\* no record: the records are at most as many as the groups that have one.
C18_HostnameRequired ==
  IsParse =>
    /\ \A i \in 1..Len(Parsed) : Truthy(Parsed[i].hostname)
    /\ ~FromRules(call.entity) =>
         Len(Parsed) <= Len(SelectSeq(Merged(Grouped(call.entity)), HasHostname))

\* A parse of a map with a group without hostname and a group with an empty
\* one next to a group that has one, and only that one's record returned.
C18_Witness ==
  /\ IsParse
  /\ ~FromRules(call.entity)
  /\ LET m == Merged(Grouped(call.entity))
     IN  /\ \E i \in 1..Len(m) : Get(m[i].props, "hostname") = UNDEF
         /\ \E i \in 1..Len(m) : Get(m[i].props, "hostname") = ""
         /\ Len(SelectSeq(m, HasHostname)) = 1
  /\ Len(Parsed) = 1

\* A group the validation rejects: no hostname, a CNAME without content,
\* or an AAAA with a content that is neither the sentinel nor an IPv6
\* literal.
FinalType(g) == validateRecordType(Get(g.props, "type"))
MissingHostname(g) == ~HasHostname(g)
MissingContent(g) == FinalType(g) = "CNAME" /\ Get(g.props, "content") = UNDEF
InvalidIPv6Content(g) ==
  /\ FinalType(g) = "AAAA"
  /\ Truthy(Get(g.props, "content"))
  /\ Get(g.props, "content") # "public_ip"
  /\ ~isValidIPv6(Get(g.props, "content"))
InvalidGroup(g) == MissingHostname(g) \/ MissingContent(g) \/ InvalidIPv6Content(g)
ValidGroup(g) == ~InvalidGroup(g)
\* A label map without the keys of one group.
WithoutGroup(labels, id) ==
  SelectSeq(labels, LAMBDA kv : ~(/\ HasDNSPrefix(kv[1])
                                  /\ GroupOf(LabelPath(kv[1])).group = id))

C19_WitnessIPv6 ==
  /\ IsParse
  /\ ~FromRules(call.entity)
  /\ LET m == Merged(Grouped(call.entity))
     IN  \E i \in 1..Len(m) :
           /\ m[i].id # "default"
           /\ ~MissingHostname(m[i]) /\ InvalidIPv6Content(m[i])
  /\ Len(Parsed) >= 1

\* The hosts named by the Host clauses of the router rules of a label map,
\* and how many Host clauses there are.
RuleIndexes(labels) == {i \in 1..Len(labels) : IsRouterRule(labels[i][1])}
HostClauses(labels) ==
  {<<i, k>> \in RuleIndexes(labels) \X (1..2) :
     k <= Len(labels[i][2]) /\ labels[i][2][k].m = "Host"}
HostSet(labels) == {labels[ik[1]][2][ik[2]].v : ik \in HostClauses(labels)}
\* The explicit type and content make a record the validation keeps.
OverrideValid(labels) ==
  LET t == validateRecordType(Lookup(labels, KeyType))
      c == Lookup(labels, KeyContent)
  IN  /\ ~(t = "CNAME" /\ c = UNDEF)
      /\ ~(t = "AAAA" /\ Truthy(c) /\ c # "public_ip" /\ ~isValidIPv6(c))
\* The parser infers the records of the entity from its router rules.
Inference(e) ==
  /\ useTraefikLabels
  /\ Lookup(containers[e], KeyTraefikEnable) = "true"
  /\ Lookup(containers[e], KeyHostname) = UNDEF
  /\ HostSet(containers[e]) # {}
  /\ OverrideValid(containers[e])

\* C20: with inference enabled, traefik.enable = "true", no explicit hostname
\* and router rules that name hosts, the parser returns exactly one record
\* for each distinct host; each record has the provider's default type,
\* proxied and ttl, except that an explicit type, content or proxied key
\* replaces the default.
C20_RuleInference ==
  (IsParse /\ Inference(call.entity)) =>
    LET ls == containers[call.entity]
        t == Lookup(ls, KeyType)
        p == Lookup(ls, KeyProxied)
    IN  /\ Len(Parsed) = Cardinality(HostSet(ls))
        /\ {Parsed[i].hostname : i \in 1..Len(Parsed)} = HostSet(ls)
        /\ \A i \in 1..Len(Parsed) :
             /\ Parsed[i].type =
                  IF t = UNDEF THEN DefaultRecordType ELSE validateRecordType(t)
             /\ Parsed[i].content = Lookup(ls, KeyContent)
             /\ Parsed[i].proxied =
                  IF p = UNDEF THEN <<DefaultProxied>> ELSE <<p = "true">>
             /\ Parsed[i].ttl = <<DefaultTTL>>

\* An inference from two rules with three Host clauses that name two hosts,
\* with no override key: two records with the defaults.
C20_Witness ==
  /\ IsParse
  /\ Inference(call.entity)
  /\ Cardinality(HostClauses(containers[call.entity])) = 3
  /\ Cardinality(HostSet(containers[call.entity])) = 2
  /\ Lookup(containers[call.entity], KeyType) = UNDEF
  /\ Lookup(containers[call.entity], KeyContent) = UNDEF
  /\ Lookup(containers[call.entity], KeyProxied) = UNDEF
  /\ Len(Parsed) = 2
  /\ Parsed[1].type = DefaultRecordType

\* An inference whose records take the explicit type, content and proxied.
C20_WitnessOverride ==
  /\ IsParse
  /\ Inference(call.entity)
  /\ Lookup(containers[call.entity], KeyType) = "aaaa"
  /\ Lookup(containers[call.entity], KeyContent) = "2001:db8::1"
  /\ Lookup(containers[call.entity], KeyProxied) = "false"
  /\ Len(Parsed) = 2
  /\ Parsed[2].type = "AAAA" /\ Parsed[2].proxied = <<FALSE>>

\* The explicit properties behind the i-th record of the last parse: the
\* default keys for a record inferred from the router rules, the merged
\* properties of the i-th valid group otherwise.
RuleProps(ls) ==
  [p \in {q \in PropertyNames : Lookup(ls, K(<<q>>)) # UNDEF} |-> Lookup(ls, K(<<p>>))]
PropsOf(i) ==
  IF FromRules(call.entity) THEN RuleProps(containers[call.entity])
  ELSE SelectSeq(Merged(Grouped(call.entity)), ValidGroup)[i].props
ExplicitProxied(i) == Get(PropsOf(i), "proxied")

C21_WitnessInferred ==
  /\ IsParse
  /\ FromRules(call.entity)
  /\ ExplicitProxied(1) = UNDEF
  /\ Parsed[1].type = "AAAA" /\ Parsed[1].proxied = <<DefaultProxied>>

\* The explicit ttl behind the i-th record, and the strings that are a
\* positive integer.
ExplicitTTL(i) == Get(PropsOf(i), "ttl")
IsPositiveInteger(s) == s \in {"1", "300", "3600"}
ExpectedTTL(i) ==
  IF IsPositiveInteger(ExplicitTTL(i)) THEN <<parseInt(ExplicitTTL(i))>>
  ELSE <<DefaultTTL>>

\* C22: every record of final type A, AAAA or CNAME has a ttl: the explicit
\* value when that is a positive integer, the provider's default otherwise,
\* also when the type became A through the invalid-type fallback.
C22_TTLDefaulting ==
  IsParse =>
    \A i \in 1..Len(Parsed) :
      Parsed[i].type \in {"A", "AAAA", "CNAME"} => Parsed[i].ttl = ExpectedTTL(i)

\* The same for the records whose type is A, AAAA or CNAME as declared, or
\* is not declared, and whose ttl is absent, a positive integer, zero,
\* negative or without a leading digit, on the grouping path.
DeclaredType(i) == Get(PropsOf(i), "type")
C22_DeclaredTypeTTL ==
  IsParse =>
    \A i \in 1..Len(Parsed) :
      (/\ ~FromRules(call.entity)
       /\ \/ DeclaredType(i) = UNDEF
          \/ toUpperCase(DeclaredType(i)) \in {"A", "AAAA", "CNAME"}
       /\ ExplicitTTL(i) # "60s") => Parsed[i].ttl = ExpectedTTL(i)

\* A parse of a group whose type is not a record type and that has no valid
\* ttl: the record has type A and no ttl.
C22_Witness ==
  /\ IsParse
  /\ ~FromRules(call.entity)
  /\ Len(Parsed) >= 1
  /\ DeclaredType(1) = "srv"
  /\ ~IsPositiveInteger(ExplicitTTL(1))
  /\ Parsed[1].type = "A"
  /\ Parsed[1].ttl = <<>>

(***************************************************************************)
(* The reconciler's claims about the content of a record.                  *)
(***************************************************************************)
\* A label map with the content "public_ip" left out, and one with it
\* written out as the default content.
IsContentKey(key) == HasDNSPrefix(key) /\ GroupOf(LabelPath(key)).property = "content"
Unspelled(ls) == SelectSeq(ls, LAMBDA kv : ~(IsContentKey(kv[1]) /\ kv[2] = "public_ip"))
Spelled(ls) ==
  IF Lookup(ls, KeyContent) = UNDEF THEN Append(ls, <<KeyContent, "public_ip">>)
  ELSE ls
\* handleServiceUpdate for a container with the given labels, in this state.
ResultFor(ls, e, net, fault) ==
  HandleLabels(Start(ipService, nextTaskId),
               [t |-> now, net |-> net, zone |-> zone, failAt |-> fault,
                serviceName |-> e],
               validateServiceLabels(ls, useTraefikLabels).records)
\* Two runs of the handler did the same: the same resolutions, the same
\* records compared, the same tasks, the same failure.
SameOutcome(a, b) ==
  /\ a.tasks = b.tasks
  /\ a.threw = b.threw /\ a.err = b.err
  /\ Len(a.log) = Len(b.log)
  /\ \A i \in 1..Len(a.log) :
       /\ a.log[i].step = b.log[i].step
       /\ a.log[i].res = b.log[i].res
       /\ a.log[i].record = b.log[i].record
       /\ a.log[i].task = b.log[i].task
       /\ a.log[i].label.hostname = b.log[i].label.hostname
       /\ a.log[i].label.type = b.log[i].label.type
\* The resolution of an entry asked the sources of the record's family.
FamilyOf(entry) ==
  /\ entry.res.called
  /\ Range(entry.res.calls) \subseteq
       (IF entry.label.type = "AAAA" THEN {"cf6"} ELSE {"cf4", "ipify", "ifconfig"})
  /\ entry.step \in {"queued", "upToDate", "getFailed"} =>
       /\ entry.record[1].content = entry.res.val
       /\ entry.res.val \in (IF entry.label.type = "AAAA" THEN IPv6Addrs ELSE IPv4Addrs)
\* Every group of the label map is of type A or AAAA.
OnlyAddressRecords(ls) ==
  \A i \in 1..Len(Merged(ls)) : FinalType(Merged(ls)[i]) \in {"A", "AAAA"}
SentinelEquivalent(e, net, fault) ==
  LET st == HandleResult(e, net, fault)
      un == ResultFor(Unspelled(containers[e]), e, net, fault)
      sp == ResultFor(Spelled(containers[e]), e, net, fault)
  IN  /\ \A i \in 1..Len(st.log) :
           (/\ st.log[i].label.type \in {"A", "AAAA"}
            /\ st.log[i].label.content \in {UNDEF, "public_ip"})
             => FamilyOf(st.log[i])
      /\ SameOutcome(un, st) /\ un.ip = st.ip
      /\ SameOutcome(sp, st) /\ sp.ip = st.ip

\* C23: for an A or AAAA record, the content public_ip and no content are
\* the same: in every reachable state, for every answer of the address
\* sources and every failure of the provider's reads, handleServiceUpdate
\* resolves the address of the record's family for both, and with the
\* content left out or written out it does the same resolutions and adds
\* the same tasks.
C23_SentinelEquivalence ==
  ops < MaxOps =>
    \A e \in DOMAIN containers, net \in NetPeriodic, fault \in 0..2 :
      OnlyAddressRecords(containers[e]) => SentinelEquivalent(e, net, fault)

\* A call for labels that declare an AAAA record without content and an A
\* record with the content public_ip, both resolved and queued.
C23_Witness ==
  /\ IsEvent
  /\ Len(call.log) = 2
  /\ call.log[1].label.type = "AAAA" /\ call.log[1].label.content = UNDEF
  /\ call.log[2].label.type = "A" /\ call.log[2].label.content = "public_ip"
  /\ call.log[1].step = "queued" /\ call.log[1].record[1].content \in IPv6Addrs
  /\ call.log[2].step = "queued" /\ call.log[2].record[1].content \in IPv4Addrs
  /\ Unspelled(containers[call.entity]) # containers[call.entity]

\* A record type that needs a content of its own.
NeedsContent(type) == type \in {"CNAME", "TXT", "MX"}

\* C24: a CNAME, TXT or MX record whose content is absent or the sentinel is
\* dropped: no record of these types reaches the handler without a content
\* of its own, none is resolved, and no task of these types carries a
\* resolved public address.
C24_ContentRequired ==
  IsEvent =>
    /\ \A i \in 1..Len(call.log) :
         NeedsContent(call.log[i].label.type) =>
           /\ call.log[i].label.content \notin {UNDEF, "public_ip"}
           /\ ~call.log[i].res.called
    /\ \A k \in 1..Len(call.tasks) :
         NeedsContent(call.tasks[k].data.recordType) =>
           call.tasks[k].data.content \notin IPv4Addrs \cup IPv6Addrs

\* A call that adds a CNAME task whose content is the resolved IPv4 address.
C24_Witness ==
  /\ IsEvent
  /\ \E i \in 1..Len(call.log) :
       /\ call.log[i].label.type = "CNAME"
       /\ call.log[i].label.content = "public_ip"
       /\ call.log[i].res.called
       /\ call.log[i].step = "queued"
       /\ call.log[i].task[1].data.recordType = "CNAME"
       /\ call.log[i].task[1].data.content \in IPv4Addrs

\* A call that adds a TXT task, declared without content, whose content is
\* the resolved IPv4 address.
C24_WitnessTXT ==
  /\ IsEvent
  /\ \E i \in 1..Len(call.log) :
       /\ call.log[i].label.type = "TXT"
       /\ call.log[i].label.content = UNDEF
       /\ call.log[i].step = "queued"
       /\ call.log[i].task[1].data.content \in IPv4Addrs

\* C25: one call of the handler works on at most one record for each
\* (hostname, type), and adds at most one task for each.
C25_OneRecordPerIdentity ==
  IsEvent =>
    /\ \A i, j \in 1..Len(call.log) :
         (/\ i < j
          /\ call.log[i].label.hostname = call.log[j].label.hostname)
           => call.log[i].label.type # call.log[j].label.type
    /\ \A i, j \in 1..Len(call.tasks) :
         (i < j /\ call.tasks[i].data.name = call.tasks[j].data.name)
           => call.tasks[i].data.recordType # call.tasks[j].data.recordType

\* A call that adds two tasks of type A for one hostname, with the contents
\* of the two groups.
C25_Witness ==
  /\ IsEvent
  /\ Len(call.tasks) = 2
  /\ call.tasks[1].data.name = call.tasks[2].data.name
  /\ call.tasks[1].data.recordType = "A" /\ call.tasks[2].data.recordType = "A"
  /\ call.tasks[1].data.content = "1.2.3.4"
  /\ call.tasks[2].data.content = "5.6.7.8"

(***************************************************************************)
(* The claims about the Docker events.                                     *)
(***************************************************************************)
\* The step handles a stop, die, kill or destroy event (and is not a
\* periodic check).
GoneEvent ==
  /\ ops' = ops + 1 /\ check' = check
  /\ event'.action \in {"stop", "die", "kill", "destroy"}
GoneIsNoOp ==
  GoneEvent =>
    /\ event'.inspected = 0
    /\ ~event'.taken
    /\ call' = call
    /\ queue' = queue /\ inProgress' = inProgress /\ nextTaskId' = nextTaskId
    /\ zone' = zone
    /\ ipService' = ipService

\* C26: a stop, die, kill or destroy event inspects no container, starts no
\* handler, adds no task and leaves the provider's records, the resolver
\* and the queued tasks as they are.
C26_GoneIsNoOp == [][GoneIsNoOp]_vars

\* A stop event for a container with DNS labels, while a task is queued for
\* it: dns-remove is emitted and nobody takes it.
C26_Witness ==
  /\ event.ran
  /\ event.action = "stop"
  /\ event.entity = "web" /\ hasDNSLabels(containers["web"])
  /\ event.emitted = <<"dns-remove">> /\ ~event.taken
  /\ event.inspected = 0
  /\ queue # <<>>

\* The container-event path has handled the container routed by Traefik that
\* has no label under the prefix: the startup scan, or its start event.
TraefikOnlyStarted ==
  /\ event.ran
  /\ containers["web"] = LabelsTraefikOnly
  /\ \/ event.action = "scan"
     \/ event.action = "start" /\ event.entity = "web"

\* The last call of the handler worked on an A record for the host with the
\* public IPv4 address, and added the task that creates it when the provider
\* holds no such record.
ReconciledA ==
  /\ IsEvent /\ call.entity = "web"
  /\ ~call.threw =>
       \E i \in 1..Len(call.log) :
         /\ call.log[i].record # <<>>
         /\ call.log[i].record[1].type = "A"
         /\ call.log[i].record[1].name = HostApp
         /\ call.log[i].record[1].content \in IPv4Addrs
         /\ zone = <<>> =>
              /\ call.log[i].step = "queued"
              /\ call.log[i].task[1].type = "CREATE"

\* C27: once the startup scan or the start event has handled a container
\* with traefik.enable=true, a Host rule and no dns.cloudflare.* label, the
\* update has been emitted and the handler has reconciled an A record for
\* the host with the public address.
C27_TraefikOnlyReconciled ==
  TraefikOnlyStarted => ("dns-update" \in Range(event.emitted) /\ ReconciledA)

\* The start event of that container, inspected, after which nothing was
\* emitted, no handler ran and no task exists.
C27_Witness ==
  /\ TraefikOnlyStarted
  /\ event.action = "start" /\ event.inspected = 1
  /\ validateServiceLabels(containers["web"], useTraefikLabels).records # <<>>
  /\ event.emitted = <<>> /\ ~event.taken
  /\ call = NoCall
  /\ queue = <<>> /\ inProgress = <<>> /\ finished = <<>>

\* With that container the handler never runs and no task is ever added,
\* whatever events follow.
C27_NeverReconciled ==
  containers["web"] = LabelsTraefikOnly =>
    (call = NoCall /\ queue = <<>> /\ inProgress = <<>> /\ nextTaskId = 1)

\* With one label under the prefix the same container is reconciled.
C27_WithPrefixLabel ==
  (/\ event.ran /\ containers["web"] = LabelsTraefikProxied
   /\ \/ event.action = "scan"
      \/ event.action = "start" /\ event.entity = "web")
    => ("dns-update" \in Range(event.emitted) /\ ReconciledA)

(***************************************************************************)
(* The claims about the tasks of a failed call.                            *)
(***************************************************************************)
\* The step is a call of the handler that fails.
FailedCall ==
  /\ ops' = ops + 1
  /\ call'.op = "handleServiceUpdate"
  /\ call'.threw

\* C28: a call of the handler that fails (address resolution for an A
\* record, or a provider read) has added no task to the queue, whatever the
\* number and the order of the container's records.
C28_AllOrNothing ==
  [][FailedCall => (queue' = queue /\ call'.tasks = <<>>)]_vars

\* A call for a container declaring an AAAA record and then an A record:
\* the AAAA task was added, then the IPv4 resolution failed and the call
\* threw; the task is in the queue.
C28_Witness ==
  /\ IsEvent /\ call.threw
  /\ Len(call.log) = 2
  /\ call.log[1].step = "queued" /\ call.log[1].task[1].data.recordType = "AAAA"
  /\ call.log[2].step = "resolveFailed"
  /\ call.tasks # <<>>
  /\ \E k \in 1..Len(queue) : queue[k] = call.tasks[1]

\* A call whose second provider read fails after the first record's task
\* was added.
C28_WitnessProvider ==
  /\ IsEvent /\ call.threw
  /\ Len(call.log) = 2
  /\ call.log[1].step = "queued"
  /\ call.log[2].step = "getFailed"
  /\ \E k \in 1..Len(queue) : queue[k] = call.tasks[1]

\* A failed call adds exactly the tasks of the records handled before the
\* failing one.
C28_TasksBeforeFailure ==
  (IsEvent /\ call.threw) =>
    /\ Len(call.log) >= 1
    /\ call.log[Len(call.log)].step \in {"resolveFailed", "getFailed"}
    /\ Len(call.tasks) =
         Cardinality({i \in 1..Len(call.log) - 1 : call.log[i].step = "queued"})

(***************************************************************************)
(* The claims about explicit hostnames and about the grouping.             *)
(***************************************************************************)
\* The hostnames the entity declares under the prefix, and those of its
\* groups the validation keeps.
ExplicitHostnames(ls) ==
  {Get(Merged(ls)[i].props, "hostname") : i \in 1..Len(Merged(ls))} \ {UNDEF, ""}
ValidHostnames(ls) ==
  {Get(Merged(ls)[i].props, "hostname") :
     i \in {j \in 1..Len(Merged(ls)) : ValidGroup(Merged(ls)[j])}}
ParsedHostnames == {Parsed[i].hostname : i \in 1..Len(Parsed)}

\* C29: when the entity declares a hostname under the prefix, the records
\* come from the explicit keys even with inference enabled, traefik.enable =
\* "true" and a Host rule: their hostnames are declared ones, and the
\* hostname of every valid group is among them.
C29_ExplicitOverInference ==
  (IsParse /\ ExplicitHostnames(Grouped(call.entity)) # {}) =>
    /\ ParsedHostnames \subseteq ExplicitHostnames(Grouped(call.entity))
    /\ ValidHostnames(Grouped(call.entity)) \subseteq ParsedHostnames

\* A parse of a map that declares the hostnames app.x.com and api.x.com and
\* is routed by a rule naming two other hosts: the records are those of the
\* rule, and neither declared hostname is in the output.
C29_Witness ==
  /\ IsParse
  /\ FromRules(call.entity)
  /\ Lookup(containers[call.entity], KeyHostname) = HostApp
  /\ ExplicitHostnames(Grouped(call.entity)) = {HostApp, HostApi}
  /\ ParsedHostnames = HostSet(containers[call.entity])
  /\ ParsedHostnames \cap {HostApp, HostApi} = {}

\* Without inference (disabled, or no traefik.enable = "true", or no Host
\* clause) the records do come from the explicit keys.
C29_ExplicitWithoutInference ==
  (IsParse /\ ~FromRules(call.entity)
           /\ ExplicitHostnames(Grouped(call.entity)) # {}) =>
    /\ ParsedHostnames \subseteq ExplicitHostnames(Grouped(call.entity))
    /\ ValidHostnames(Grouped(call.entity)) \subseteq ParsedHostnames

\* The grouping as the claim words it, read off the keys under the prefix.
\* The paths of the map, in order, with their values.
Paths(ls) ==
  LET ks == SelectSeq(ls, LAMBDA kv : HasDNSPrefix(kv[1]))
  IN  [i \in 1..Len(ks) |-> [parts |-> LabelPath(ks[i][1]), value |-> ks[i][2]]]
\* The path names the property of the group.
Names(parts, group, property) ==
  \/ Len(parts) = 1 /\ group = "default" /\ parts = <<property>>
  \/ /\ Len(parts) = 2
     /\ \/ parts[1] \in PropertyNames /\ parts = <<property, group>>
        \/ parts[1] \notin PropertyNames /\ parts = <<group, property>>
Segments(ps) ==
  {ps[i].parts[1] : i \in 1..Len(ps)} \cup
  {ps[i].parts[2] : i \in {j \in 1..Len(ps) : Len(ps[j].parts) = 2}}
ClaimedGroups(ps) ==
  {g \in {"default"} \cup Segments(ps) :
     \E i \in 1..Len(ps), p \in PropertyNames \cup Segments(ps) :
       Names(ps[i].parts, g, p)}
\* The last value written for a property: of the group itself, else shared.
LastValue(ps, group, property) ==
  LET is == {i \in 1..Len(ps) : Names(ps[i].parts, group, property)}
  IN  IF is = {} THEN UNDEF
      ELSE ps[CHOOSE i \in is : \A j \in is : j <= i].value
ClaimedValue(ps, group, property) ==
  IF LastValue(ps, group, property) # UNDEF
    THEN LastValue(ps, group, property)
    ELSE LastValue(ps, "default", property)

\* C30: a key without suffix is a shared default and a property of the
\* group "default"; a key of two segments names (property, group) when its
\* first segment is hostname, type, content, proxied or ttl, and (group,
\* property) otherwise; every group has its own value of a property where it
\* sets one and the shared default elsewhere, and the records are built
\* from these values.
C30_GroupParsing ==
  IsParse =>
    LET ls == Grouped(call.entity)
        ps == Paths(ls)
        m == Merged(ls)
        v == SelectSeq(m, ValidGroup)
    IN  /\ {m[i].id : i \in 1..Len(m)} = ClaimedGroups(ps)
        /\ \A i \in 1..Len(m), p \in PropertyNames :
             Get(m[i].props, p) = ClaimedValue(ps, m[i].id, p)
        /\ ~FromRules(call.entity) =>
             /\ Len(Parsed) = Len(v)
             /\ \A k \in 1..Len(v) :
                  /\ Parsed[k].hostname = ClaimedValue(ps, v[k].id, "hostname")
                  /\ Parsed[k].content = ClaimedValue(ps, v[k].id, "content")
                  /\ Parsed[k].type =
                       validateRecordType(ClaimedValue(ps, v[k].id, "type"))

\* A parse of a map whose group "b" is named by a key that starts with the
\* group (b.hostname, b.proxied) and by keys that start with the property
\* (type.b, ttl.b): its record has its own type over the shared one and the
\* shared content.
C30_Witness ==
  /\ IsParse /\ ~FromRules(call.entity)
  /\ Lookup(containers[call.entity], KeyType) = "a"
  /\ Lookup(containers[call.entity], KeyContent) = "2001:db8::1"
  /\ Lookup(containers[call.entity], K(<<"type", "b">>)) = "AAAA"
  /\ Lookup(containers[call.entity], K(<<"b", "proxied">>)) = "true"
  /\ Lookup(containers[call.entity], K(<<"ttl", "b">>)) = "3600"
  /\ Lookup(containers[call.entity], KeyProxied) = "false"
  /\ Len(Parsed) = 2
  /\ Parsed[1].hostname = HostApp /\ Parsed[1].type = "A"
  /\ Parsed[1].proxied = <<FALSE>>
  /\ Parsed[2].hostname = HostApi /\ Parsed[2].type = "AAAA"
  /\ Parsed[2].content = "2001:db8::1"
  /\ Parsed[2].proxied = <<TRUE>>
  /\ Parsed[2].ttl = <<3600>>

(***************************************************************************)
(* The claims about what a periodic check leaves alone.                    *)
(***************************************************************************)
\* The container declares a record of the type for the hostname whose
\* content is the public address.
DeclaresSentinel(e, name, type) ==
  /\ InFleet(e)
  /\ \E i \in 1..Len(SentinelRecords(e, type)) :
       SentinelRecords(e, type)[i].hostname = name

\* A task of a check is for a sentinel record of a family whose address
\* changed in the check, and carries the new address.
TaskOfChangedFamily(task) ==
  /\ task.data.recordType \in {"A", "AAAA"}
  /\ Changed(task.data.recordType)
  /\ task.data.content = ResOf(task.data.recordType).val
  /\ DeclaresSentinel(task.data.serviceName, task.data.name, task.data.recordType)

\* C31: every task a periodic check adds is for a record of the family whose
\* address changed and whose content is the public address; a record of
\* another type or with explicit content gets no task; and a check that
\* resolves the last known address of a family lists no container for it
\* and adds no task for it.
C31_RecheckFrame ==
  check.ran =>
    /\ \A k \in 1..Len(check.tasks) : TaskOfChangedFamily(check.tasks[k])
    /\ \A i \in 1..Len(check.visits) :
         \A j \in 1..Len(check.visits[i].log) :
           /\ check.visits[i].log[j].label.type = check.visits[i].type
           /\ IsSentinel(check.visits[i].log[j].label.content)
    /\ \A type \in {"A", "AAAA"} :
         ~Changed(type) =>
           /\ VisitsOf(type) = <<>>
           /\ \A k \in 1..Len(check.tasks) : check.tasks[k].data.recordType # type
    /\ \A k \in 1..Len(queue) :
         DeclaresSentinel(queue[k].data.serviceName, queue[k].data.name,
                          queue[k].data.recordType)

\* A check that found a new IPv4 address and the last known IPv6 address:
\* both containers were visited for A only; the web host's A record got its
\* task, its AAAA record and the api host's A record with explicit content
\* got none.
C31_Witness ==
  /\ Changed("A")
  /\ check.res6.called /\ check.res6.ok /\ check.res6.val = check.before.v6
  /\ containers["api"] = LabelsExplicit
  /\ Len(check.visits) = 2
  /\ \A i \in 1..2 : check.visits[i].type = "A" /\ check.visits[i].outcome = "done"
  /\ check.visits[2].entity = "api" /\ check.visits[2].log = <<>>
  /\ Len(check.tasks) = 1
  /\ check.tasks[1].data.recordType = "A" /\ check.tasks[1].data.name = HostApp

\* A check that resolved both last known addresses: no container listed,
\* no task.
C31_WitnessUnchanged ==
  /\ check.ran /\ ~check.threw
  /\ check.res4.ok /\ check.res4.val = check.before.v4
  /\ check.res6.ok /\ check.res6.val = check.before.v6
  /\ check.visits = <<>> /\ check.tasks = <<>>

(***************************************************************************)
(* The claims about the order of the address sources.                      *)
(***************************************************************************)
\* A resolution asked a fallback provider.
AskedFallback(res) == \E k \in 1..Len(res.calls) : res.calls[k] \in {"ipify", "ifconfig"}

\* C32: in a resolution of the IPv4 address the fallback providers are
\* asked only after the primary source failed in that call, and both are
\* asked; when both answer the same value, it is returned and cached with
\* the time of the call; when one of them fails, the refresh fails: the
\* cache is left as it was and the call returns the cached value or the
\* error.  A resolution of the IPv6 address asks the IPv6 endpoint only.
C32_SourceOrdering ==
  \A i \in Resolutions :
    LET res == call.log[i].res
    IN  IF call.log[i].label.type = "AAAA"
          THEN ~AskedFallback(res) /\ res.calls \in {<<>>, <<"cf6">>}
          ELSE /\ res.calls \in {<<>>, <<"cf4">>, <<"cf4", "ipify", "ifconfig">>}
               /\ AskedFallback(res) =>
                    /\ res.answers[1] \in NetErrors
                    /\ (/\ res.answers[2] \notin NetErrors
                        /\ res.answers[3] = res.answers[2]) =>
                         /\ res.ok /\ res.val = res.answers[2]
                         /\ res.curAfter = res.answers[2]
                         /\ res.lastAfter = call.t
                    /\ (\/ res.answers[2] \in NetErrors
                        \/ res.answers[3] \in NetErrors) =>
                         /\ res.curAfter = res.cur /\ res.lastAfter = res.last
                         /\ IF Truthy(res.cur) THEN res.ok /\ res.val = res.cur
                                               ELSE ~res.ok
               /\ (Len(res.calls) = 1 /\ res.answers[1] \notin NetErrors) =>
                    res.ok /\ res.val = res.answers[1]

\* The primary source failed, both fallback providers answered the same
\* address, other than the stale cached one: it is returned and cached with
\* the time of the call.
C32_Witness ==
  /\ call.op = "getPublicIP"
  /\ \E i \in Resolutions :
       LET res == call.log[i].res
       IN  /\ call.log[i].label.type = "A"
           /\ res.calls = <<"cf4", "ipify", "ifconfig">>
           /\ res.answers[1] \in NetErrors
           /\ res.answers[2] \in IPv4Addrs /\ res.answers[3] = res.answers[2]
           /\ Truthy(res.cur) /\ res.cur # res.answers[2]
           /\ res.val = res.answers[2]
           /\ ipService.currentIPv4 = res.answers[2]
           /\ ipService.lastCheckIPv4 = call.t /\ res.last < call.t

\* One fallback provider answered and the other failed, with nothing
\* cached: the call fails.
C32_WitnessOneFails ==
  /\ call.op = "getPublicIP" /\ call.threw
  /\ \E i \in Resolutions :
       LET res == call.log[i].res
       IN  /\ res.calls = <<"cf4", "ipify", "ifconfig">>
           /\ res.answers[2] \in IPv4Addrs /\ res.answers[3] \in NetErrors
           /\ ~Truthy(res.cur) /\ ~res.ok

(***************************************************************************)
(* The claims about calls that run at the same time.                       *)
(***************************************************************************)
\* C33: the calls of the handler for one container run one at a time: no two
\* calls in flight are for the same container (calls for different
\* containers may be in flight together).
C33_OneAtATimePerEntity ==
  \A i, j \in 1..Len(handlers) :
    i # j => handlers[i].entity # handlers[j].entity

\* Two calls for the container web in flight: the first has added the task
\* of its A record and waits on its AAAA record, the second has parsed the
\* labels and waits on its first record.
C33_Witness ==
  /\ Len(handlers) = 2
  /\ handlers[1].entity = "web" /\ handlers[2].entity = "web"
  /\ Len(handlers[1].log) = 1 /\ Len(handlers[1].todo) = 1
  /\ handlers[1].tasks # <<>>
  /\ handlers[2].log = <<>> /\ Len(handlers[2].todo) = 2

\* Calls for two containers in flight together.
C33_WitnessAcross ==
  /\ Len(handlers) = 2
  /\ handlers[1].entity # handlers[2].entity
  /\ handlers[1].log # <<>>

\* Two calls for one container that ran together have both added the
\* CREATE task of the same record.
C33_WitnessDuplicate ==
  /\ handlers = <<>> /\ ops = 2
  /\ \E i, j \in 1..Len(queue) :
       /\ i < j
       /\ queue[i].type = "CREATE" /\ queue[j].type = "CREATE"
       /\ queue[i].data.name = queue[j].data.name
       /\ queue[i].data.recordType = queue[j].data.recordType
       /\ queue[i].data.serviceName = queue[j].data.serviceName

(***************************************************************************)
(* The claims about the start and the end of the application.              *)
(***************************************************************************)
\* The running containers that have a label under the prefix.
Labelled == {e \in DOMAIN containers : hasDNSLabels(containers[e])}
TasksFor(q, e) == {k \in 1..Len(q) : q[k].data.serviceName = e}

\* The step is the startup scan.
ScanStep == ~event.ran /\ event'.ran

\* The scan emits one dns-update for each labelled container, the listener
\* takes each, and each container is reconciled once: one task for each of
\* its records when the address was resolved (the provider holds none of
\* them as declared), none otherwise; the timer is not set yet.
ScanEffect ==
  /\ event'.action = "scan"
  /\ event'.emitted = [i \in 1..Cardinality(Labelled) |-> "dns-update"]
  /\ event'.taken = (Labelled # {})
  /\ \A e \in DOMAIN containers :
       Cardinality(TasksFor(queue', e)) =
         IF e \in Labelled /\ Truthy(ipService'.currentIPv4)
           THEN Len(validateServiceLabels(containers[e], useTraefikLabels).records)
           ELSE 0
  /\ Labelled # {} => (call'.op = "handleServiceUpdate" /\ call'.entity \in Labelled)
  /\ ~ipCheckInterval /\ ~ipCheckInterval' /\ ~check'.ran

UpdateEvent ==
  /\ event.ran
  /\ ops' = ops + 1 /\ check' = check
  /\ ~isGone(event'.action)
  /\ event'.entity \in Labelled

\* C35: a reconciliation that fails (inspection, address resolution or
\* provider read) leaves its error with the listener and the process
\* running; and every later event of a labelled container, of this or of
\* another one, is reconciled again, whatever happened to the call before.
C35_FailureDoesNotStopHandling ==
  /\ [][FailedCall => (call'.err # "" /\ ~exited')]_vars
  /\ [][UpdateEvent => /\ event'.taken
                       /\ call'.op = "handleServiceUpdate"
                       /\ call'.entity = event'.entity
                       /\ call'.t = now]_vars

\* The scan failed for both containers (no task was numbered before), and
\* the start event of the second container is reconciled afterwards.
C35_Witness ==
  /\ Labelled = {"web", "api"}
  /\ event.action = "start" /\ event.entity = "api" /\ event.taken
  /\ call.entity = "api" /\ ~call.threw
  /\ call.tasks # <<>> /\ call.tasks[1].id = 1
  /\ ~exited

\* Each kind of failure is met, and the process still runs.
C35_WitnessInspect == call.threw /\ call.err = ErrInspect /\ ~exited /\ ops > 0
C35_WitnessProvider == call.threw /\ call.err = ErrProvider /\ ~exited /\ ops > 0
C35_WitnessResolve == call.threw /\ call.err \notin {ErrInspect, ErrProvider} /\ ~exited /\ ops > 0

\* C36: when the process exits on SIGTERM or SIGINT the timer of the
\* periodic check has been cleared, and no periodic check starts after the
\* shutdown: the trace of the checks does not change any more.
C36_NoCheckAfterShutdown ==
  /\ [](exited => ~ipCheckInterval)
  /\ [][(~exited /\ exited') => (ipCheckInterval /\ check' = check)]_vars
  /\ [][exited => (check' = check /\ ops' = ops /\ exited')]_vars

\* The application is shut down after a periodic check has run.
C36_Witness == exited /\ check.ran /\ ~ipCheckInterval /\ event.ran

(***************************************************************************)
(* The claims about the tasks the reconciler hands to the queue.           *)
(***************************************************************************)
\* The record the provider holds for the task's identity (no task is
\* applied under SpecHandler, so it is the one the call observed).
ObservedFor(task) == getDNSRecord(zone, task.data.name, task.data.recordType)

ShapeOfTask(task) ==
  /\ task.status = "PENDING"
  /\ task.attempts = 0
  /\ task.maxAttempts = 3
  /\ task.type \in {"CREATE", "UPDATE"}
  /\ (task.type = "UPDATE") <=> (ObservedFor(task) # <<>>)
  /\ task.type = "UPDATE" => task.data.recordId = ObservedFor(task)[1].id
  /\ task.type = "CREATE" => task.data.recordId = 0

ContentOfTask(task) == task.data.content \notin {"", NULL, UNDEF}

\* C37: every task handed to the queue is PENDING with attempts 0 and
\* maxAttempts 3, is an UPDATE carrying the observed record's id exactly
\* when a record was observed, a CREATE without recordId otherwise, and
\* has a non-empty content.
C37_TaskShape ==
  \A k \in 1..Len(queue) : ShapeOfTask(queue[k]) /\ ContentOfTask(queue[k])

\* A task with an empty content is in the queue: the primary source failed
\* and both fallback providers answered with an empty body.
C37_Witness ==
  \E k \in 1..Len(queue) :
    /\ queue[k].data.content = ""
    /\ queue[k].data.recordType = "A"
    /\ ShapeOfTask(queue[k])
    /\ call.op = "handleServiceUpdate" /\ ~call.threw

\* All of the shape but the content holds of every task.
C37_ShapeHolds == \A k \in 1..Len(queue) : ShapeOfTask(queue[k])

\* The content is empty only when it was resolved from empty bodies.
C37_ContentOfDeclared ==
  \A i \in 1..Len(call.log) :
    (call.log[i].step = "queued" /\ ~call.log[i].res.called)
      => ContentOfTask(call.log[i].task[1])

\* Both kinds of task are handed to the queue.
C37_WitnessUpdate ==
  \E k \in 1..Len(queue) : queue[k].type = "UPDATE" /\ queue[k].data.recordId # 0
C37_WitnessCreate ==
  \E k \in 1..Len(queue) : queue[k].type = "CREATE" /\ queue[k].data.content # ""

(***************************************************************************)
(* The claims about the provider's records under interleaving.             *)
(***************************************************************************)
SameIdentity(a, b) == a.name = b.name /\ a.type = b.type
SameTaskIdentity(a, b) ==
  a.data.name = b.data.name /\ a.data.recordType = b.data.recordType

\* The CREATE tasks that were applied to the provider.
AppliedCreates ==
  {k \in 1..Len(finished) :
     finished[k].type = "CREATE" /\ finished[k].status = "COMPLETED"}

\* C38: at most one CREATE is applied for a (hostname, type), and the
\* provider never holds two records with the same (name, type).
C38_UniqueIdentity ==
  /\ \A i \in AppliedCreates :
       \A j \in AppliedCreates :
         SameTaskIdentity(finished[i], finished[j]) => i = j
  /\ \A i \in 1..Len(zone) :
       \A j \in 1..Len(zone) : SameIdentity(zone[i], zone[j]) => i = j

\* The scan and a later start event of the same container each observed
\* no record and queued a CREATE; both were applied and the provider holds
\* the record twice.
C38_Witness ==
  /\ \E i \in AppliedCreates :
       \E j \in AppliedCreates :
         /\ i < j
         /\ SameTaskIdentity(finished[i], finished[j])
         /\ finished[i].data.serviceName = finished[j].data.serviceName
  /\ \E i \in 1..Len(zone) :
       \E j \in 1..Len(zone) : i < j /\ SameIdentity(zone[i], zone[j])
  /\ handlers = <<>>

\* The duplicates are in the queue before the first is applied.
C38_WitnessQueued ==
  /\ Len(queue) >= 2
  /\ queue[1].type = "CREATE" /\ queue[2].type = "CREATE"
  /\ SameTaskIdentity(queue[1], queue[2])
  /\ finished = <<>> /\ inProgress = <<>>

\* With the worker draining between the calls, the second call observes the
\* record and queues no CREATE: an UPDATE never adds a record.
C38_UpdateKeepsRecords ==
  [][(Len(finished') > Len(finished)
       /\ finished'[Len(finished')].type = "UPDATE")
      => Len(zone') = Len(zone)]_vars

(***************************************************************************)
(* The claims about convergence after a periodic check.                    *)
(***************************************************************************)
\* The provider's record for the hostname holds the address, or a task
\* carrying the address for the hostname is in the queue.
ConvergedA(name, address) ==
  \/ /\ getDNSRecord(zone, name, "A") # <<>>
     /\ getDNSRecord(zone, name, "A")[1].content = address
  \/ \E k \in 1..Len(queue) :
       /\ queue[k].data.name = name
       /\ queue[k].data.recordType = "A"
       /\ queue[k].data.content = address

AllConvergedA ==
  \A e \in DOMAIN containers :
    \A i \in 1..Len(SentinelRecords(e, "A")) :
      ConvergedA(SentinelRecords(e, "A")[i].hostname, check.res4.val)

\* The last check completed without error and resolved the IPv4 address.
CheckCompleted == check.ran /\ ~check.threw /\ check.res4.called /\ check.res4.ok

\* C39: after a periodic check that completes without error, every
\* sentinel A record of every running container is at the provider with
\* the address the check resolved, or a task carrying it has been queued;
\* also after the first check of the process.
C39_Convergence == CheckCompleted => AllConvergedA

\* The first check of the process resolves 5.6.7.8 while the provider holds
\* the web host's A record with 1.2.3.4: the check completes, knows the new
\* address, and has queued nothing.
C39_Witness ==
  /\ CheckCompleted
  /\ ~Truthy(check.before.v4)
  /\ check.res4.val = "5.6.7.8"
  /\ lastKnownIPv4 = "5.6.7.8"
  /\ getDNSRecord(zone, HostApp, "A")[1].content = "1.2.3.4"
  /\ DeclaresSentinel("web", HostApp, "A")
  /\ check.visits = <<>> /\ queue = <<>>

\* Once an address is known, a check that finds another one and reconciles
\* every container it visits does converge.
C39_ConvergesAfterChange ==
  (/\ CheckCompleted
   /\ Changed("A")
   /\ Len(VisitsOf("A")) = Len(Running)
   /\ \A i \in 1..Len(check.visits) : check.visits[i].outcome = "done")
    => AllConvergedA

C39_WitnessAfterChange ==
  /\ CheckCompleted /\ Changed("A")
  /\ \A i \in 1..Len(check.visits) : check.visits[i].outcome = "done"
  /\ AllConvergedA
  /\ queue # <<>>

(***************************************************************************)
(* The claims about the parser's input.                                    *)
(***************************************************************************)
\* The label map of the parsed container as the call leaves it.
LabelsAfter == validateServiceLabels(containers[call.entity], useTraefikLabels).labels

\* C40: a parse leaves the label map it was given with the keys and values
\* it had, with and without routing-rule inference.
C40_InputUnchanged == IsParse => LabelsAfter = containers[call.entity]

\* With inference on, a map without a hostname whose router rule names a
\* host (and whose router is not enabled) comes back with the hostname key
\* set to that host.
C40_Witness ==
  /\ IsParse
  /\ useTraefikLabels
  /\ Lookup(containers[call.entity], KeyHostname) = UNDEF
  /\ Lookup(containers[call.entity], KeyTraefikEnable) = "false"
  /\ Lookup(LabelsAfter, KeyHostname) = "a.x.com"
  /\ Len(LabelsAfter) = Len(containers[call.entity]) + 1
  /\ Parsed # <<>> /\ Parsed[1].hostname = "a.x.com"

\* An empty hostname label is overwritten in place.
C40_WitnessOverwritten ==
  /\ IsParse
  /\ Lookup(containers[call.entity], KeyHostname) = ""
  /\ Lookup(LabelsAfter, KeyHostname) = "a.x.com"
  /\ Len(LabelsAfter) = Len(containers[call.entity])

\* The map is left alone without inference, when the records come from the
\* router rules, and when the map has a hostname or no rule names a host;
\* otherwise only the hostname key differs.
C40_ChangedOnlyByInference ==
  IsParse =>
    /\ (\/ ~useTraefikLabels
        \/ FromRules(call.entity)
        \/ Truthy(Lookup(containers[call.entity], KeyHostname))
        \/ ~Truthy(extractHostnameFromTraefikRule(containers[call.entity])))
         => LabelsAfter = containers[call.entity]
    /\ \A i \in 1..Len(containers[call.entity]) :
         containers[call.entity][i][1] # KeyHostname
           => LabelsAfter[i] = containers[call.entity][i]

====
